---- MODULE Spec2Model ----
(***************************************************************************)
(* A model of the adaptive self-organizing-map engine (src/src/som.cpp,    *)
(* topo.cpp, data.hpp, data.cpp).                                          *)
(*                                                                         *)
(* Numbers.  A Float of the codebook is modelled as a fixed-point number   *)
(* with FScale units per 1.0; sums, products and comparisons of such       *)
(* numbers are exact integer arithmetic.  A radius is a real of the form   *)
(* base^(1/2^k) (the update exponent is modelled as 1/2^update_shift), so  *)
(* pow() and every comparison of a radius with an integer distance is      *)
(* exact.  The neighbourhood influence, which needs exp(), is tabulated in *)
(* thousandths.  Arrays keep the source's 0-based indices.                 *)
(***************************************************************************)
EXTENDS Integers, Sequences, FiniteSets, TLC

----------------------------------------------------------------------------
(* Bounds of the model *)

\* rows of the corpus
NumRows == 2
\* epochs of a training run range over 2..MaxEpochs
MaxEpochs == 3
\* fixed-point units per 1.0 of a codebook Float
FScale == 10
\* rows of the BMU arrays handed to Neighbourhood::update on its own
NbhRows == 1
\* length of the sequences of Neighbourhood::update calls applied on their own
MaxUpdates == 2
\* rows of the corpora the dead-cell fix is applied to
DeadRows == 3

\* height and width of the lattices on which the distance functions are measured
TopoHeight == 4

TopoWidth == 4

\* largest number of cells of the codebooks whose gap error is computed
GapCells == 4

\* width in bits of CountType in the model (uint32_t in the program)
CountBits == 2

\* largest number of cells and largest input dimension of the saved codebooks
FileCells == 2

FileDim == 2

(* Program constants *)

\* std::numeric_limits<Float>::max(): above every finite distance of the model
MAX_REAL_DISTANCE == 1073741824

----------------------------------------------------------------------------
(* Arithmetic helpers *)

Abs(x) == IF x < 0 THEN -x ELSE x

Max2(a, b) == IF a < b THEN b ELSE a

Min2(a, b) == IF b < a THEN b ELSE a

SetMax(S) == CHOOSE x \in S : \A y \in S : y <= x

SetMin(S) == CHOOSE x \in S : \A y \in S : x <= y

\* conversion of an integer to CellIndexType (uint16_t)
ToCellIndex(x) == x % 65536

\* squared<T>(x) returns T: the product is truncated to T's width
squared_u8(x) == (x * x) % 256

squared_u16(x) == (x * x) % 65536

squared_int(x) == x * x

\* std::ceil(std::sqrt(n)) for an integer n >= 0
CeilSqrt(n) == CHOOSE m \in 0..n : m * m >= n /\ (m = 0 \/ (m - 1) * (m - 1) < n)

RECURSIVE SumTo(_, _)
\* sum of f(i) for i in 0..n-1, added in index order
SumTo(f, n) == IF n = 0 THEN 0 ELSE SumTo(f, n - 1) + f[n - 1]

----------------------------------------------------------------------------
(* Topology: src/src/topo.cpp *)

dist_circle_plane(y, x, i, j, hgt, wid) ==
  ToCellIndex(CeilSqrt(squared_int(Abs(i - y)) + squared_int(Abs(j - x))))

dist_circle_torus(y, x, i, j, hgt, wid) ==
  LET dx == Abs(j - x)
      dy == Abs(i - y)
  IN  ToCellIndex(CeilSqrt(squared_int(Min2(dx, wid - dx)) + squared_int(Min2(dy, hgt - dy))))

\* the axial distance without the shift of the odd rows
dist_hexa_plane_unshifted(row1, col1, row2, col2, hgt, wid) ==
  LET a == ToCellIndex(Abs(row1 - row2))
      b == ToCellIndex(Abs(col1 - col2))
      c == ToCellIndex(Abs(col1 - col2 + row1 - row2))
  IN  SetMax({a, b, c})

dist_hexa_plane(row1, col1, row2, col2, hgt, wid) ==
  LET a == ToCellIndex(Abs(row1 - row2))
      b == ToCellIndex(Abs(col1 - col2 - (row1 - (row1 % 2)) \div 2 + (row2 - (row2 % 2)) \div 2))
      c == ToCellIndex(Abs(col1 - col2 + row1 - row2 - (row1 - (row1 % 2)) \div 2 + (row2 - (row2 % 2)) \div 2))
  IN  SetMax({a, b, c})

\* the torus distance with only the second point shifted by a period
dist_hexa_torus_one_sided(row1, col1, row2, col2, hgt, wid) ==
  LET a == dist_hexa_plane(row1, col1, row2, col2, 0, 0)
      b == dist_hexa_plane(row1, col1, row2 + hgt, col2, 0, 0)
      c == dist_hexa_plane(row1, col1, row2, col2 + wid, 0, 0)
      d == dist_hexa_plane(row1, col1, row2 + hgt, col2 + wid, 0, 0)
  IN  SetMin({a, b, c, d})

dist_hexa_torus(row1, col1, row2, col2, hgt, wid) ==
  LET a == dist_hexa_plane(row1, col1, row2, col2, 0, 0)
      b == dist_hexa_plane(row1, col1, row2 + hgt, col2, 0, 0)
      c == dist_hexa_plane(row1, col1, row2, col2 + wid, 0, 0)
      d == dist_hexa_plane(row1, col1, row2 + hgt, col2 + wid, 0, 0)
      e == dist_hexa_plane(row1 + hgt, col1, row2, col2, 0, 0)
      f == dist_hexa_plane(row1, col1 + wid, row2, col2, 0, 0)
      g == dist_hexa_plane(row1 + hgt, col1 + wid, row2, col2, 0, 0)
  IN  SetMin({a, b, c, d, e, f, g})

dist_rect_plane(y, x, i, j, hgt, wid) ==
  ToCellIndex(Max2(Abs(i - y), Abs(j - x)))

dist_rect_torus(y, x, i, j, hgt, wid) ==
  LET dx == Abs(j - x)
      dy == Abs(i - y)
  IN  ToCellIndex(Max2(Min2(dx, wid - dx), Min2(dy, hgt - dy)))

\* the (global, local) pairs distance_function accepts
Topologies == {"circ_plane", "circ_torus", "hexa_plane", "hexa_torus", "rect_plane", "rect_torus"}

\* the function pointer distance_function returns, applied to its six arguments
distance_function(topo, y1, x1, y2, x2, a5, a6) ==
  CASE topo = "circ_plane" -> dist_circle_plane(y1, x1, y2, x2, a5, a6)
    [] topo = "circ_torus" -> dist_circle_torus(y1, x1, y2, x2, a5, a6)
    [] topo = "hexa_plane" -> dist_hexa_plane(y1, x1, y2, x2, a5, a6)
    [] topo = "hexa_torus" -> dist_hexa_torus(y1, x1, y2, x2, a5, a6)
    [] topo = "rect_plane" -> dist_rect_plane(y1, x1, y2, x2, a5, a6)
    [] topo = "rect_torus" -> dist_rect_torus(y1, x1, y2, x2, a5, a6)

----------------------------------------------------------------------------
(* Sparse corpus: src/src/data.hpp, src/src/data.cpp *)

\* vocabulary (column indices) of the modelled corpora
Cols == {0, 1}

\* the weight bytes a weighted (version 2) corpus file holds in the model
WeightPatterns == {<<1, 2>>}

\* bytes the heap may hold right after the weights buffer
TailBytes == {0, 3}

RECURSIVE SortedSeq(_)
\* the elements of a set of integers in ascending order
SortedSeq(S) ==
  IF S = {} THEN <<>> ELSE LET m == SetMin(S) IN <<m>> \o SortedSeq(S \ {m})

\* BinarySparseMatrix::init_sum_of_squares
init_sum_of_squares(num_rows, index_pointers, weights, has_weights) ==
  [row \in 0..(num_rows - 1) |->
     LET num_non_zero_entries_in_row == index_pointers[row + 1] - index_pointers[row]
     IN  IF has_weights
         THEN SumTo([i \in 0..(num_non_zero_entries_in_row - 1) |->
                       squared_u8(weights[index_pointers[row] + i])],
                    num_non_zero_entries_in_row)
         ELSE num_non_zero_entries_in_row]

\* The matrix CorpusDataset's constructor builds from a file whose row r
\* declares Cardinality(rowsets[r]) entries, the ascending indices of
\* rowsets[r] and (version 2) the weight bytes pattern[p % 2 + 1] at flat
\* position p; main then calls init_sum_of_squares.
CorpusDataset(rowsets, num_cols, has_weights, pattern) ==
  LET num_rows == Len(rowsets)
      index_pointers == [r \in 0..num_rows |->
                           SumTo([q \in 0..(num_rows - 1) |-> Cardinality(rowsets[q + 1])], r)]
      num_non_zero == index_pointers[num_rows]
      RowOf(p) == CHOOSE r \in 0..(num_rows - 1) :
                     index_pointers[r] <= p /\ p < index_pointers[r + 1]
      indices == [p \in 0..(num_non_zero - 1) |->
                    SortedSeq(rowsets[RowOf(p) + 1])[p - index_pointers[RowOf(p)] + 1]]
      weights == IF has_weights
                 THEN [p \in 0..(num_non_zero - 1) |-> pattern[(p % 2) + 1]]
                 ELSE <<>>
  IN  [num_rows |-> num_rows,
       num_cols |-> num_cols,
       num_non_zero |-> num_non_zero,
       index_pointers |-> index_pointers,
       indices |-> indices,
       weights |-> weights,
       has_weights |-> has_weights,
       sum_of_squares |-> init_sum_of_squares(num_rows, index_pointers, weights, has_weights)]

\* the corpora of n rows the model draws its inputs from: every choice of
\* rows over Cols, unweighted and with each of the weight patterns
Corpora(n, patterns) ==
  LET RowSets == [1..n -> SUBSET Cols]
      num_cols == Cardinality(Cols)
  IN  {CorpusDataset(rs, num_cols, FALSE, <<>>) : rs \in RowSets}
        \cup {CorpusDataset(rs, num_cols, TRUE, pt) : rs \in RowSets, pt \in patterns}

\* BinarySparseMatrix::num_indices_in_row
num_indices_in_row(d, row) == d.index_pointers[row + 1] - d.index_pointers[row]

\* BinarySparseMatrix::indices_in_row, read at offset it: indices_in_row(row)[it]
indices_in_row(d, row, it) == d.indices[d.index_pointers[row] + it]

\* BinarySparseMatrix::weights_in_row, read at offset off: weights_in_row(row)[off].
\* The buffer holds num_non_zero bytes; a read past its end returns what the
\* heap holds there (tail).
weights_in_row(d, tail, row, off) ==
  LET p == d.index_pointers[row] + off
  IN  IF p < d.num_non_zero THEN d.weights[p] ELSE tail[p - d.num_non_zero]

----------------------------------------------------------------------------
(* Codebook: best-matching-unit search, src/src/som.cpp *)

\* vec_squared (utils.hpp): sum of squares of size Floats from arr[base],
\* in units of 1/FScale^2
vec_squared(arr, base, size) ==
  SumTo([i \in 0..(size - 1) |-> arr[base + i] * arr[base + i]], size)

RECURSIVE product_with_weights_from(_, _, _, _, _, _, _)
\* the loop of product_with_weights from iteration it on
product_with_weights_from(d, tail, row, arr, base, effective_input_dim, it) ==
  IF it >= num_indices_in_row(d, row)
  THEN 0
  ELSE LET idx == indices_in_row(d, row, it)
       IN  IF idx < effective_input_dim
           THEN arr[base + idx] * weights_in_row(d, tail, row, idx)
                  + product_with_weights_from(d, tail, row, arr, base, effective_input_dim, it + 1)
           ELSE 0

\* product_with_weights(indices, num_non_zero, values, weights, effective_input_dim)
\* for row `row` and the prototype at arr[base], in units of 1/FScale
product_with_weights(d, tail, row, arr, base, effective_input_dim) ==
  product_with_weights_from(d, tail, row, arr, base, effective_input_dim, 0)

RECURSIVE product_from(_, _, _, _, _, _)
\* the loop of product from iteration it on
product_from(d, row, arr, base, effective_input_dim, it) ==
  IF it >= num_indices_in_row(d, row)
  THEN 0
  ELSE LET idx == indices_in_row(d, row, it)
       IN  IF idx >= effective_input_dim
           THEN 0
           ELSE arr[base + idx] + product_from(d, row, arr, base, effective_input_dim, it + 1)

\* product(indices, num_non_zero, values, effective_input_dim)
product(d, row, arr, base, effective_input_dim) ==
  product_from(d, row, arr, base, effective_input_dim, 0)

\* the inner product either search uses for a row and the prototype at arr[base]
row_product(d, tail, row, arr, base, effective_input_dim) ==
  IF d.has_weights
  THEN product_with_weights(d, tail, row, arr, base, effective_input_dim)
  ELSE product(d, row, arr, base, effective_input_dim)

\* the skip test without the cutoff test: only an empty row is skipped
row_skipped_if_empty(d, row, effective_input_dim) ==
  num_indices_in_row(d, row) = 0

\* a row the searches skip: empty, or its smallest index is not below the cutoff
row_skipped(d, row, effective_input_dim) ==
  \/ num_indices_in_row(d, row) = 0
  \/ indices_in_row(d, row, 0) >= effective_input_dim

\* Float addition of a distance and a finite term: FLT_MAX absorbs it
float_add(dist, x) == IF dist = MAX_REAL_DISTANCE THEN MAX_REAL_DISTANCE ELSE dist + x

\* find_best_matching_units: `distance` of one (cell, row) pair, units 1/FScale^2
single_distance(d, tail, arr, input_dim, train_vocab_cutoff, cell_index, row) ==
  LET effective_input_dim == IF train_vocab_cutoff > 0 THEN train_vocab_cutoff ELSE d.num_cols
      base == cell_index * input_dim
      w_squared == vec_squared(arr, base, input_dim)
  IN  w_squared - 2 * FScale * row_product(d, tail, row, arr, base, effective_input_dim)

RECURSIVE single_cell_loop(_, _, _, _, _, _, _, _, _)
\* find_best_matching_units: the cell loop from cell_index on, for one row;
\* st = [bmu, dist] is the row's slot of best_matching_units and distances
single_cell_loop(d, tail, arr, num_cells, input_dim, train_vocab_cutoff, row, cell_index, st) ==
  IF cell_index >= num_cells
  THEN st
  ELSE LET effective_input_dim == IF train_vocab_cutoff > 0 THEN train_vocab_cutoff ELSE d.num_cols
           distance == single_distance(d, tail, arr, input_dim, train_vocab_cutoff, cell_index, row)
           nxt == IF row_skipped(d, row, effective_input_dim)
                  THEN st
                  ELSE IF distance < st.dist
                       THEN [bmu |-> cell_index, dist |-> distance]
                       ELSE st
       IN  single_cell_loop(d, tail, arr, num_cells, input_dim, train_vocab_cutoff, row, cell_index + 1, nxt)

\* Codebook::find_best_matching_units: the arrays it leaves
find_best_matching_units(d, tail, arr, num_cells, input_dim, train_vocab_cutoff, need_correct_distances) ==
  LET res == [row \in 0..(d.num_rows - 1) |->
                single_cell_loop(d, tail, arr, num_cells, input_dim, train_vocab_cutoff, row, 0,
                                 [bmu |-> 0, dist |-> MAX_REAL_DISTANCE])]
  IN  [best_matching_units |-> [row \in 0..(d.num_rows - 1) |-> res[row].bmu],
       distances |-> [row \in 0..(d.num_rows - 1) |->
                        IF need_correct_distances
                        THEN Max2(0, float_add(res[row].dist, FScale * FScale * d.sum_of_squares[row]))
                        ELSE res[row].dist]]

\* find_best_and_next_best_matching_units: `distance` of one (cell, row) pair
dual_distance(d, tail, arr, input_dim, train_vocab_cutoff, cell_index, row) ==
  LET effective_input_dim == IF train_vocab_cutoff > 0 THEN train_vocab_cutoff ELSE input_dim
      base == cell_index * effective_input_dim
      w_squared == vec_squared(arr, base, effective_input_dim)
  IN  w_squared - 2 * FScale * row_product(d, tail, row, arr, base, effective_input_dim)
        + FScale * FScale * d.sum_of_squares[row]

\* the body of `if (distance < distances[row])` in the dual search
dual_step(st, cell_index, distance) ==
  IF distance < st.dist
  THEN [bmu |-> cell_index, dist |-> Max2(0, distance), next |-> st.bmu, next_dist |-> st.dist]
  ELSE st

RECURSIVE dual_cell_loop(_, _, _, _, _, _, _, _, _)
\* find_best_and_next_best_matching_units: the cell loop from cell_index on,
\* for one row; st holds the row's slot of the four arrays
dual_cell_loop(d, tail, arr, num_cells, input_dim, train_vocab_cutoff, row, cell_index, st) ==
  IF cell_index >= num_cells
  THEN st
  ELSE LET effective_input_dim == IF train_vocab_cutoff > 0 THEN train_vocab_cutoff ELSE input_dim
           distance == dual_distance(d, tail, arr, input_dim, train_vocab_cutoff, cell_index, row)
           nxt == IF row_skipped(d, row, effective_input_dim)
                  THEN st
                  ELSE dual_step(st, cell_index, distance)
       IN  dual_cell_loop(d, tail, arr, num_cells, input_dim, train_vocab_cutoff, row, cell_index + 1, nxt)

\* Codebook::find_best_and_next_best_matching_units: the arrays it leaves
find_best_and_next_best_matching_units(d, tail, arr, num_cells, input_dim, train_vocab_cutoff) ==
  LET res == [row \in 0..(d.num_rows - 1) |->
                dual_cell_loop(d, tail, arr, num_cells, input_dim, train_vocab_cutoff, row, 0,
                               [bmu |-> 0, dist |-> MAX_REAL_DISTANCE,
                                next |-> 0, next_dist |-> MAX_REAL_DISTANCE])]
  IN  [best_matching_units |-> [row \in 0..(d.num_rows - 1) |-> res[row].bmu],
       distances |-> [row \in 0..(d.num_rows - 1) |-> res[row].dist],
       next_best_matching_units |-> [row \in 0..(d.num_rows - 1) |-> res[row].next],
       next_distances |-> [row \in 0..(d.num_rows - 1) |-> res[row].next_dist]]

\* a `parallel for` without its barrier: the loop goes on once one worker is done
barrier_nowait(phase) == \E row \in DOMAIN phase : phase[row] = "done"

\* the implicit barrier at the end of `#pragma omp parallel for` over the
\* rows: every row's iteration is done
barrier_reached(phase) == \A row \in DOMAIN phase : phase[row] = "done"

----------------------------------------------------------------------------
(* Neighbourhood: src/src/som.cpp *)

(* A radius is the record [b |-> base, k |-> k], the real base^(1/2^k). *)

RECURSIVE Pow2k(_, _, _)
\* x^(2^k), or cap + 1 when that exceeds cap
Pow2k(x, k, cap) ==
  IF x > cap THEN cap + 1
  ELSE IF k = 0 THEN x
  ELSE Pow2k(x * x, k - 1, cap)

\* d < r for an integer d and a radius r
int_lt_radius(d, r) == Pow2k(d, r.k, r.b) < r.b

\* r1 < r2 for two radii
radius_lt(r1, r2) ==
  IF r1.k >= r2.k
  THEN r1.b < Pow2k(r2.b, r1.k - r2.k, r1.b)
  ELSE Pow2k(r1.b, r2.k - r1.k, r2.b) < r2.b

RECURSIVE radius_norm(_)
\* the one record that stands for the value of r: 1^x = 1, (m^2)^(1/2) = m
radius_norm(r) ==
  IF r.b <= 1 THEN [b |-> r.b, k |-> 0]
  ELSE IF r.k > 0 /\ CeilSqrt(r.b) * CeilSqrt(r.b) = r.b
       THEN radius_norm([b |-> CeilSqrt(r.b), k |-> r.k - 1])
       ELSE r

\* static_cast<Float>(n) of an integer radius
radius_of_int(n) == [b |-> n, k |-> 0]

\* values[cell] * update_exponent in place of the power, rounded down
radius_pow_product(r, update_shift) == [b |-> r.b \div (2 ^ update_shift), k |-> r.k]

\* the radius left as it is, in place of the power
radius_pow_kept(r, update_shift) == r

\* std::pow(r, update_exponent), the exponent being 1/2^update_shift
radius_pow(r, update_shift) == radius_norm([b |-> r.b, k |-> r.k + update_shift])

\* std::max(a, b) of Floats: (a < b) ? b : a
radius_max2(a, b) == IF radius_lt(a, b) THEN b ELSE a

\* std::min(a, b) of Floats: (b < a) ? b : a
radius_min2(a, b) == IF radius_lt(b, a) THEN b ELSE a

\* (1 - SQRT_E * exp(-0.5 * d^2 / r^2)) / (r * (1 - SQRT_E)) in millionths,
\* at [r.b][r.k + 1][d + 1], for a distance d below the radius r
InfluenceTable ==
  <<
    <<<<1000000, 0, 0, 0>>,
      <<1000000, 0, 0, 0>>,
      <<1000000, 0, 0, 0>>,
      <<1000000, 0, 0, 0>>,
      <<1000000, 0, 0, 0>>,
      <<1000000, 0, 0, 0>>,
      <<1000000, 0, 0, 0>>,
      <<1000000, 0, 0, 0>>>>,
    <<<<500000, 350683, 0, 0>>,
      <<707107, 309588, 0, 0>>,
      <<840896, 204434, 0, 0>>,
      <<917004, 117045, 0, 0>>,
      <<957603, 62546, 0, 0>>,
      <<978572, 32318, 0, 0>>,
      <<989228, 16425, 0, 0>>,
      <<994599, 8280, 0, 0>>>>,
    <<<<333333, 287552, 164525, 0>>,
      <<577350, 352088, 0, 0>>,
      <<759836, 275619, 0, 0>>,
      <<871686, 171442, 0, 0>>,
      <<933641, 95362, 0, 0>>,
      <<966251, 50249, 0, 0>>,
      <<982981, 25786, 0, 0>>,
      <<991454, 13061, 0, 0>>>>,
    <<<<250000, 230452, 175342, 94232>>,
      <<500000, 350683, 0, 0>>,
      <<707107, 309588, 0, 0>>,
      <<840896, 204434, 0, 0>>,
      <<917004, 117045, 0, 0>>,
      <<957603, 62546, 0, 0>>,
      <<978572, 32318, 0, 0>>,
      <<989228, 16425, 0, 0>>>>
  >>

\* Neighbourhood::influence, in millionths; vals is the radius field
influence(topo, hgt, wid, vals, source_cell, target_cell) ==
  LET y1 == source_cell \div wid
      x1 == source_cell % wid
      y2 == target_cell \div wid
      x2 == target_cell % wid
      d == distance_function(topo, y1, x1, y2, x2, wid, hgt)
      r == vals[target_cell]
  IN  IF int_lt_radius(d, r) THEN InfluenceTable[r.b][r.k + 1][d + 1] ELSE 0

RECURSIVE discontinuities_from(_, _, _, _, _, _, _)
\* the loop of topographic_discontinuities from row `row` on
discontinuities_from(topo, hgt, wid, bmus, next_bmus, num_rows, row) ==
  IF row >= num_rows
  THEN <<>>
  ELSE LET cell1 == bmus[row]
           cell2 == next_bmus[row]
           y1 == cell1 \div wid
           x1 == cell1 % wid
           y2 == cell2 \div wid
           x2 == cell2 % wid
           distance == distance_function(topo, y1, x1, y2, x2, hgt, wid)
           rest == discontinuities_from(topo, hgt, wid, bmus, next_bmus, num_rows, row + 1)
       IN  IF distance > 1
           THEN <<[cell1 |-> cell1, cell2 |-> cell2, distance |-> distance]>> \o rest
           ELSE rest

\* Neighbourhood::topographic_discontinuities
topographic_discontinuities(topo, hgt, wid, bmus, next_bmus, num_rows) ==
  discontinuities_from(topo, hgt, wid, bmus, next_bmus, num_rows, 0)

\* Neighbourhood::radius_from_discontinuity
radius_from_discontinuity(topo, hgt, wid, cell_index, discontinuity) ==
  LET y == cell_index \div wid
      x == cell_index % wid
      y1 == discontinuity.cell1 \div wid
      x1 == discontinuity.cell1 % wid
      y2 == discontinuity.cell2 \div wid
      x2 == discontinuity.cell2 % wid
      d1 == distance_function(topo, y, x, y1, x1, hgt, wid)
      d2 == distance_function(topo, y, x, y2, x2, hgt, wid)
  IN  IF Max2(d1, d2) <= discontinuity.distance
      THEN discontinuity.distance
      ELSE IF Min2(d1, d2) < discontinuity.distance
           THEN ToCellIndex(discontinuity.distance - Min2(d1, d2))
           ELSE 1

RECURSIVE radius_lower_bound_from(_, _, _, _, _, _, _)
\* Neighbourhood::update: the loop over the discontinuities from number i on,
\* radius_lower_bound being acc
radius_lower_bound_from(topo, hgt, wid, cell_index, discontinuities, i, acc) ==
  IF i > Len(discontinuities)
  THEN acc
  ELSE radius_lower_bound_from(topo, hgt, wid, cell_index, discontinuities, i + 1,
         Max2(acc, radius_from_discontinuity(topo, hgt, wid, cell_index, discontinuities[i])))

\* Neighbourhood::update: radius_lower_bound of a cell, from 1.f
radius_lower_bound(topo, hgt, wid, cell_index, discontinuities) ==
  radius_lower_bound_from(topo, hgt, wid, cell_index, discontinuities, 1, 1)

\* the new values[cell_index] with std::min in place of std::max
updated_radius_min(topo, hgt, wid, old, update_shift, cell_index, discontinuities, respect_lower_bound) ==
  IF respect_lower_bound
  THEN radius_min2(radius_of_int(radius_lower_bound(topo, hgt, wid, cell_index, discontinuities)),
                   radius_pow(old, update_shift))
  ELSE radius_pow(old, update_shift)

\* Neighbourhood::update: the new values[cell_index]
updated_radius(topo, hgt, wid, old, update_shift, cell_index, discontinuities, respect_lower_bound) ==
  IF respect_lower_bound
  THEN radius_max2(radius_of_int(radius_lower_bound(topo, hgt, wid, cell_index, discontinuities)),
                   radius_pow(old, update_shift))
  ELSE radius_pow(old, update_shift)

\* Neighbourhood::update returning discontinuities.size() / num_rows
Neighbourhood_update_plain(topo, hgt, wid, num_cells, vals, update_shift, bmus, next_bmus, num_rows, respect_lower_bound) ==
  LET discontinuities == topographic_discontinuities(topo, hgt, wid, bmus, next_bmus, num_rows)
  IN  [values |-> [cell_index \in 0..(num_cells - 1) |->
                     updated_radius(topo, hgt, wid, vals[cell_index], update_shift, cell_index,
                                    discontinuities, respect_lower_bound)],
       ret |-> <<Len(discontinuities), num_rows>>]

\* Neighbourhood::update: the radius field it leaves and the topographic
\* error it returns, the fraction <<numerator, denominator>>
Neighbourhood_update(topo, hgt, wid, num_cells, vals, update_shift, bmus, next_bmus, num_rows, respect_lower_bound) ==
  LET discontinuities == topographic_discontinuities(topo, hgt, wid, bmus, next_bmus, num_rows)
  IN  [values |-> [cell_index \in 0..(num_cells - 1) |->
                     updated_radius(topo, hgt, wid, vals[cell_index], update_shift, cell_index,
                                    discontinuities, respect_lower_bound)],
       ret |-> <<Len(discontinuities) + 1, num_rows>>]

\* radius_min / radius_max after the parallel loop of Neighbourhood::update.
\* Each worker reads the shared field, folds its cell's radius in and writes
\* it back without synchronisation, so the field ends as the fold over some
\* chain of cells that ends with the last writer.
racy_fold_outcomes(vals, num_cells) ==
  {vals[c] : c \in 0..(num_cells - 1)}

----------------------------------------------------------------------------
(* Codebook: batch update, metrics and dead cells, src/src/som.cpp *)

\* numerator[i] / denominator as a codebook Float: the quotient rounded to
\* the nearest multiple of 1/FScale
float_div(numerator, denominator) ==
  (2 * FScale * numerator + denominator) \div (2 * denominator)

RECURSIVE numerator_add_weighted_from(_, _, _, _, _, _)
\* the loop over a row's indices adding learning_rate * weight
numerator_add_weighted_from(d, row, effective_input_dim, learning_rate, numerator, i) ==
  IF i >= num_indices_in_row(d, row)
  THEN numerator
  ELSE LET idx == indices_in_row(d, row, i)
           weight == IF d.has_weights THEN d.weights[d.index_pointers[row] + i] ELSE 1
       IN  IF idx >= effective_input_dim
           THEN numerator
           ELSE numerator_add_weighted_from(d, row, effective_input_dim, learning_rate,
                  [numerator EXCEPT ![idx] = @ + learning_rate * weight], i + 1)

RECURSIVE numerator_add_from(_, _, _, _, _, _)
\* apply_batch_som_update: the loop over a row's indices from i on
numerator_add_from(d, row, effective_input_dim, learning_rate, numerator, i) ==
  IF i >= num_indices_in_row(d, row)
  THEN numerator
  ELSE LET idx == indices_in_row(d, row, i)
       IN  IF idx >= effective_input_dim
           THEN numerator
           ELSE numerator_add_from(d, row, effective_input_dim, learning_rate,
                  [numerator EXCEPT ![idx] = @ + learning_rate], i + 1)

\* apply_batch_som_update: what one row adds to [denominator, numerator]
batch_row_step(d, row, effective_input_dim, learning_rate, acc) ==
  IF learning_rate <= 0
  THEN acc
  ELSE [denominator |-> acc.denominator + learning_rate,
        numerator |-> numerator_add_from(d, row, effective_input_dim, learning_rate,
                                         acc.numerator, 0)]

RECURSIVE batch_rows_from(_, _, _, _, _, _, _, _, _, _)
\* apply_batch_som_update: the loop over the rows from row on, for one cell
batch_rows_from(d, topo, hgt, wid, vals, bmus, effective_input_dim, cell_index, row, acc) ==
  IF row >= d.num_rows
  THEN acc
  ELSE batch_rows_from(d, topo, hgt, wid, vals, bmus, effective_input_dim, cell_index, row + 1,
         batch_row_step(d, row, effective_input_dim,
                        influence(topo, hgt, wid, vals, bmus[row], cell_index), acc))

\* apply_batch_som_update: denominator and numerator of one cell
batch_sums(d, topo, hgt, wid, vals, bmus, input_dim, train_vocab_cutoff, cell_index) ==
  LET effective_input_dim == IF train_vocab_cutoff > 0 THEN train_vocab_cutoff ELSE input_dim
  IN  batch_rows_from(d, topo, hgt, wid, vals, bmus, effective_input_dim, cell_index, 0,
                      [denominator |-> 0, numerator |-> [i \in 0..(input_dim - 1) |-> 0]])

\* the batch update without the `denominator != 0` test: a cell without
\* influence is overwritten with its zero numerator
apply_batch_som_update_unguarded(d, topo, hgt, wid, vals, arr, num_cells, input_dim, bmus, train_vocab_cutoff) ==
  LET sums == [cell_index \in 0..(num_cells - 1) |->
                 batch_sums(d, topo, hgt, wid, vals, bmus, input_dim, train_vocab_cutoff, cell_index)]
  IN  [j \in DOMAIN arr |->
         LET cell_index == j \div input_dim
             i == j % input_dim
         IN  IF cell_index < num_cells
             THEN IF sums[cell_index].denominator # 0
                  THEN float_div(sums[cell_index].numerator[i], sums[cell_index].denominator)
                  ELSE 0
             ELSE arr[j]]

\* Codebook::apply_batch_som_update: the codebook array it leaves
apply_batch_som_update(d, topo, hgt, wid, vals, arr, num_cells, input_dim, bmus, train_vocab_cutoff) ==
  LET sums == [cell_index \in 0..(num_cells - 1) |->
                 batch_sums(d, topo, hgt, wid, vals, bmus, input_dim, train_vocab_cutoff, cell_index)]
  IN  [j \in DOMAIN arr |->
         LET cell_index == j \div input_dim
             i == j % input_dim
         IN  IF cell_index < num_cells /\ sums[cell_index].denominator # 0
             THEN float_div(sums[cell_index].numerator[i], sums[cell_index].denominator)
             ELSE arr[j]]

RECURSIVE cells_in_use_from(_, _, _, _, _)
\* gap_error / assign_dead_cells: the loop that marks cell_in_use, from row on
cells_in_use_from(bmus, num_rows, num_cells, row, cell_in_use) ==
  IF row >= num_rows \/ Cardinality(cell_in_use) >= num_cells
  THEN cell_in_use
  ELSE cells_in_use_from(bmus, num_rows, num_cells, row + 1, cell_in_use \cup {bmus[row]})

\* gap_error without its test of cell_in_use: every row counts as a new cell
gap_error_of_rows(bmus, num_rows, num_cells) ==
  <<ToCellIndex(num_cells - Min2(num_rows, num_cells)), num_cells>>

\* Codebook::gap_error: the fraction <<numerator, denominator>> it returns
gap_error_of(bmus, num_rows, num_cells) ==
  LET num_cells_used == Cardinality(cells_in_use_from(bmus, num_rows, num_cells, 0, {}))
  IN  <<ToCellIndex(num_cells - num_cells_used), num_cells>>

RECURSIVE sorted_descending(_, _)
\* the values f[i], i in S, in descending order (std::greater<Float>)
sorted_descending(f, S) ==
  IF S = {}
  THEN <<>>
  ELSE LET i == CHOOSE x \in S : \A y \in S : f[y] <= f[x]
       IN  <<f[i]>> \o sorted_descending(f, S \ {i})

RECURSIVE worst_matching_from(_, _, _, _, _, _)
\* assign_dead_cells: the loop that fills worst_matching_inputs, from row on
worst_matching_from(dists, num_rows, num_cells_unused, distance_threshold, row, acc) ==
  IF row >= num_rows \/ Len(acc) >= num_cells_unused
  THEN acc
  ELSE worst_matching_from(dists, num_rows, num_cells_unused, distance_threshold, row + 1,
         IF dists[row] >= distance_threshold THEN Append(acc, row) ELSE acc)

RECURSIVE assign_from(_, _, _, _, _, _, _)
\* assign_dead_cells: the loop over the cells from cell on, i rows being given away
assign_from(bmus, num_cells, num_cells_unused, cell_in_use, worst_matching_inputs, cell, i) ==
  IF cell >= num_cells \/ i >= num_cells_unused
  THEN bmus
  ELSE IF cell \notin cell_in_use
       THEN assign_from([bmus EXCEPT ![worst_matching_inputs[i + 1]] = cell], num_cells,
                        num_cells_unused, cell_in_use, worst_matching_inputs, cell + 1, i + 1)
       ELSE assign_from(bmus, num_cells, num_cells_unused, cell_in_use, worst_matching_inputs,
                        cell + 1, i)

\* Codebook::assign_dead_cells: the BMU array it leaves and the fraction it returns
assign_dead_cells(bmus, dists, num_rows, num_cells) ==
  LET cell_in_use == cells_in_use_from(bmus, num_rows, num_cells, 0, {})
      num_cells_unused == ToCellIndex(num_cells - Cardinality(cell_in_use))
  IN  IF num_cells_unused = 0 \/ num_cells_unused > num_rows
      THEN [best_matching_units |-> bmus, ret |-> <<0, 1>>]
      ELSE LET largest_distances == SubSeq(sorted_descending(dists, 0..(num_rows - 1)), 1, num_cells_unused)
               distance_threshold == largest_distances[num_cells_unused]
               worst_matching_inputs == worst_matching_from(dists, num_rows, num_cells_unused,
                                                            distance_threshold, 0, <<>>)
           IN  [best_matching_units |-> assign_from(bmus, num_cells, num_cells_unused, cell_in_use,
                                                     worst_matching_inputs, 0, 0),
                ret |-> <<num_cells_unused, num_cells>>]

RECURSIVE total_distance_from(_, _, _, _, _, _, _)
\* diffusion_error: the loop over the rows from row on
total_distance_from(topo, hgt, wid, bmus, previous_bmus, num_rows, row) ==
  IF row >= num_rows
  THEN 0
  ELSE LET source_cell == previous_bmus[row]
           target_cell == bmus[row]
           y1 == source_cell \div wid
           x1 == source_cell % wid
           y2 == target_cell \div wid
           x2 == target_cell % wid
       IN  (IF source_cell # target_cell
            THEN distance_function(topo, y1, x1, y2, x2, wid, hgt)
            ELSE 0)
           + total_distance_from(topo, hgt, wid, bmus, previous_bmus, num_rows, row + 1)

\* Codebook::diffusion_error: the fraction <<total_distance, num_rows>> it returns
diffusion_error_of(topo, hgt, wid, bmus, previous_bmus, num_rows) ==
  <<total_distance_from(topo, hgt, wid, bmus, previous_bmus, num_rows, 0), num_rows>>

RECURSIVE squared_distances_from(_, _, _)
\* quantization_error: the loop adding squared(distances[row]) from row on;
\* the square of the +infinity sentinel is infinite
squared_distances_from(dists, num_rows, row) ==
  IF row >= num_rows
  THEN 0
  ELSE LET rest == squared_distances_from(dists, num_rows, row + 1)
       IN  IF dists[row] = MAX_REAL_DISTANCE \/ rest = MAX_REAL_DISTANCE
           THEN MAX_REAL_DISTANCE
           ELSE dists[row] * dists[row] + rest

\* Codebook::quantization_error: <<s, n>> stands for sqrt(s) / n
quantization_error_of(dists, num_rows) ==
  <<squared_distances_from(dists, num_rows, 0), num_rows>>

\* the variant of the dead-cell condition without the stride test
dead_cell_update_always(epoch, dead_cell_update_strides) ==
  dead_cell_update_strides > 0

\* train: dead_cell_update_strides > 0 && epoch % dead_cell_update_strides == 0
dead_cell_update_due(epoch, dead_cell_update_strides) ==
  dead_cell_update_strides > 0 /\ epoch % dead_cell_update_strides = 0

\* the variant of the batch cutoff that keeps the cutoff in the last epoch
batch_cutoff_kept(epoch, num_epochs, train_vocab_cutoff) == train_vocab_cutoff

\* train: the cutoff handed to apply_batch_som_update, whose default is 0
batch_cutoff(epoch, num_epochs, train_vocab_cutoff) ==
  IF epoch < num_epochs THEN train_vocab_cutoff ELSE 0

----------------------------------------------------------------------------
(* State *)

VARIABLES
  height, width, topology, num_cells,      \* lattice of Codebook and Neighbourhood
  data, heap_tail,                         \* the corpus; the heap after its weights
  array, input_dim,                        \* Codebook::array, Codebook::input_dim
  values, update_shift,                    \* Neighbourhood::values, update_exponent
  radius_min, radius_max,                  \* Neighbourhood::radius_min / radius_max
  best_matching_units, distances,          \* the caller's arrays
  next_best_matching_units, next_distances,
  previous_best_matching_units,
  num_epochs, respect_lower_bound,         \* arguments of train
  train_vocab_cutoff, dead_cell_update_strides,
  epoch, gap_error, diffusion_error,       \* locals of train
  topographic_error,
  convergence_log,                         \* rows written to convergence_log_stream
  call,                                    \* the last call made: its name and arguments
  ret,                                     \* the value the last call returned
  pc,                                      \* position in train, or the operation applied last
  omp,                                     \* the parallel region in progress: loop position, workers
  counts,                                  \* SemanticMap::counts: the tensor, or nullptr
  file                                     \* the bytes of the file written last

latticeVars == <<height, width, topology, num_cells>>
corpusVars == <<data, heap_tail>>
codebookVars == <<array, input_dim>>
fieldVars == <<values, radius_min, radius_max>>
bmuVars == <<best_matching_units, distances, next_best_matching_units, next_distances>>
argVars == <<num_epochs, respect_lower_bound, train_vocab_cutoff, dead_cell_update_strides, update_shift>>
localVars == <<epoch, gap_error, diffusion_error, topographic_error, convergence_log>>
otherVars == <<omp, counts, file>>

vars == <<latticeVars, corpusVars, codebookVars, fieldVars, bmuVars,
          previous_best_matching_units, argVars, localVars, call, ret, pc, otherVars>>

\* the Codebook / Neighbourhood constructors: num_cells = height * width (CellIndexType)
LatticeInit(h, w, topo) ==
  /\ height = h
  /\ width = w
  /\ topology = topo
  /\ num_cells = ToCellIndex(h * w)

\* Neighbourhood's constructor: every radius is initial_radius
FieldInit(n, initial_radius) ==
  /\ values = [c \in 0..(n - 1) |-> radius_of_int(initial_radius)]
  /\ radius_min = radius_of_int(initial_radius)
  /\ radius_max = radius_of_int(initial_radius)

\* the arrays train or SemanticMap::build allocates, not yet written
ArraysInit(n) ==
  /\ best_matching_units = [row \in 0..(n - 1) |-> 0]
  /\ distances = [row \in 0..(n - 1) |-> 0]
  /\ next_best_matching_units = [row \in 0..(n - 1) |-> 0]
  /\ next_distances = [row \in 0..(n - 1) |-> 0]
  /\ previous_best_matching_units = [row \in 0..(n - 1) |-> 0]

\* SemanticMap::counts when it is nullptr
null_counts == [allocated |-> FALSE, entries |-> [j \in {} |-> 0]]

\* the locals of train before its first epoch
LocalsInit ==
  /\ epoch = 0
  /\ gap_error = <<0, 1>>
  /\ diffusion_error = <<0, 1>>
  /\ topographic_error = <<0, 1>>
  /\ convergence_log = <<>>
  /\ call = [name |-> "none"]
  /\ ret = <<0, 1>>
  /\ omp = [region |-> "none"]
  /\ counts = null_counts
  /\ file = <<>>

\* the heap after the weights buffer: as many bytes as a read of
\* weights_in_row(row)[idx], idx < num_cols, can reach
HeapTails == [0..(Cardinality(Cols) - 2) -> TailBytes]

\* Codebook::init: every Float is drawn from [0, 1]; the model draws 0.0 or 1.0
Codebooks(n, dim) == [0..(n * dim - 1) -> {0, FScale}]

----------------------------------------------------------------------------
(* Specification SpecSearch: the two BMU searches on a corpus and a codebook *)

SearchInit ==
  /\ LatticeInit(1, 2, "rect_plane")
  /\ data \in Corpora(NumRows, WeightPatterns)
  /\ heap_tail \in (IF data.has_weights THEN HeapTails ELSE {<<>>})
  /\ input_dim = data.num_cols
  /\ array \in Codebooks(2, Cardinality(Cols))
  /\ FieldInit(2, 1)
  /\ ArraysInit(NumRows)
  /\ LocalsInit
  /\ num_epochs = 0
  /\ respect_lower_bound = TRUE
  /\ train_vocab_cutoff \in 0..(Cardinality(Cols) - 1)
  /\ dead_cell_update_strides = 0
  /\ update_shift = 0
  /\ pc = "init"

\* SemanticMap::build and callers: find_best_matching_units on the state
SearchSingle(need_correct_distances) ==
  LET res == find_best_matching_units(data, heap_tail, array, num_cells, input_dim,
                                      train_vocab_cutoff, need_correct_distances)
  IN  /\ best_matching_units' = res.best_matching_units
      /\ distances' = res.distances
      /\ call' = [name |-> "find_best_matching_units",
                  train_vocab_cutoff |-> train_vocab_cutoff,
                  need_correct_distances |-> need_correct_distances]
      /\ pc' = "find_best_matching_units"
      /\ UNCHANGED <<otherVars, latticeVars, corpusVars, codebookVars, fieldVars,
                     next_best_matching_units, next_distances,
                     previous_best_matching_units, argVars, localVars, ret>>

\* find_best_and_next_best_matching_units on the state
SearchDual ==
  LET res == find_best_and_next_best_matching_units(data, heap_tail, array, num_cells, input_dim,
                                                    train_vocab_cutoff)
  IN  /\ best_matching_units' = res.best_matching_units
      /\ distances' = res.distances
      /\ next_best_matching_units' = res.next_best_matching_units
      /\ next_distances' = res.next_distances
      /\ call' = [name |-> "find_best_and_next_best_matching_units",
                  train_vocab_cutoff |-> train_vocab_cutoff]
      /\ pc' = "find_best_and_next_best_matching_units"
      /\ UNCHANGED <<otherVars, latticeVars, corpusVars, codebookVars, fieldVars,
                     previous_best_matching_units, argVars, localVars, ret>>

SearchNext ==
  \/ \E need_correct_distances \in BOOLEAN : SearchSingle(need_correct_distances)
  \/ SearchDual

SpecSearch == SearchInit /\ [][SearchNext]_vars

----------------------------------------------------------------------------
(* Properties of the BMU searches (SpecSearch) *)

Cells == 0..(num_cells - 1)

Rows == 0..(data.num_rows - 1)

\* effective_input_dim of find_best_and_next_best_matching_units in the state
DualEffectiveDim == IF train_vocab_cutoff > 0 THEN train_vocab_cutoff ELSE input_dim

\* effective_input_dim of find_best_matching_units in the state
SingleEffectiveDim == IF train_vocab_cutoff > 0 THEN train_vocab_cutoff ELSE data.num_cols

\* the distance the dual search computes for a (row, cell) pair of the state
DualDistanceOf(row, c) ==
  dual_distance(data, heap_tail, array, input_dim, train_vocab_cutoff, c, row)

\* the distance the single search computes for a (row, cell) pair of the state
SingleDistanceOf(row, c) ==
  single_distance(data, heap_tail, array, input_dim, train_vocab_cutoff, c, row)

AfterDual == pc = "find_best_and_next_best_matching_units"

AfterSingle == pc = "find_best_matching_units"

\* C2: after find_best_and_next_best_matching_units, for every row that is
\* not skipped and a codebook of at least two cells, the next-best matching
\* unit is a cell other than the BMU whose distance is the smallest among the
\* cells other than the BMU, and next_distances holds that distance (clamped
\* at 0 like every distance the search stores).
C2_NextBestIsArgminExcludingBmu ==
  (AfterDual /\ num_cells >= 2) =>
    \A row \in Rows :
      ~row_skipped(data, row, DualEffectiveDim) =>
        LET b == best_matching_units[row]
            n == next_best_matching_units[row]
        IN  /\ n # b
            /\ \A c \in Cells \ {b} : DualDistanceOf(row, n) <= DualDistanceOf(row, c)
            /\ next_distances[row] = Max2(0, DualDistanceOf(row, n))

\* C3: in both searches, the BMU recorded for a row that is not skipped is
\* the lowest-indexed cell among those whose distance to the row is minimal.
C3_FirstMinimumWins ==
  /\ AfterSingle =>
       \A row \in Rows :
         ~row_skipped(data, row, SingleEffectiveDim) =>
           best_matching_units[row] =
             SetMin({c \in Cells : \A c2 \in Cells :
                       SingleDistanceOf(row, c) <= SingleDistanceOf(row, c2)})
  /\ AfterDual =>
       \A row \in Rows :
         ~row_skipped(data, row, DualEffectiveDim) =>
           best_matching_units[row] =
             SetMin({c \in Cells : \A c2 \in Cells :
                       DualDistanceOf(row, c) <= DualDistanceOf(row, c2)})

\* the sum, over the positions i of a row whose index is below the cutoff,
\* of the prototype's value at that index times the weight at position i
AlignedProduct(row, base, effective_input_dim) ==
  LET n == num_indices_in_row(data, row)
  IN  SumTo([i \in 0..(n - 1) |->
               IF indices_in_row(data, row, i) < effective_input_dim
               THEN array[base + indices_in_row(data, row, i)] * data.weights[data.index_pointers[row] + i]
               ELSE 0],
            n)

\* C10: for a weighted corpus, the inner product either search uses for a
\* row it does not skip and a cell's prototype is the sum, over the row's
\* positions whose index is below the effective dimension, of the prototype's
\* value at the index times the weight stored at the same position.
C10_WeightsAlignedWithIndices ==
  data.has_weights =>
    /\ AfterDual =>
         \A row \in Rows : \A c \in Cells :
           ~row_skipped(data, row, DualEffectiveDim) =>
             row_product(data, heap_tail, row, array, c * DualEffectiveDim, DualEffectiveDim)
               = AlignedProduct(row, c * DualEffectiveDim, DualEffectiveDim)
    /\ AfterSingle =>
         \A row \in Rows : \A c \in Cells :
           ~row_skipped(data, row, SingleEffectiveDim) =>
             row_product(data, heap_tail, row, array, c * input_dim, SingleEffectiveDim)
               = AlignedProduct(row, c * input_dim, SingleEffectiveDim)

----------------------------------------------------------------------------
(* Specification SpecNbh: sequences of Neighbourhood::update calls *)

\* the lattices and topologies of SpecNbh (main requires an even height for hexa)
NbhLattices ==
  {<<1, 5, t>> : t \in {"rect_plane", "rect_torus"}}
    \cup {<<2, 2, t>> : t \in {"circ_plane", "circ_torus", "hexa_plane", "hexa_torus"}}

\* --initial-radius values of the model
InitialRadii == {1, 3}

\* --update-exponent values of the model: 1 and 1/2
UpdateShifts == {0, 1}

NbhInit ==
  /\ \E lt \in NbhLattices : LatticeInit(lt[1], lt[2], lt[3])
  /\ data = CorpusDataset([r \in 1..NbhRows |-> {}], Cardinality(Cols), FALSE, <<>>)
  /\ heap_tail = <<>>
  /\ input_dim = data.num_cols
  /\ array = [j \in 0..(num_cells * input_dim - 1) |-> 0]
  /\ \E initial_radius \in InitialRadii : FieldInit(num_cells, initial_radius)
  /\ ArraysInit(NbhRows)
  /\ LocalsInit
  /\ num_epochs = 0
  /\ respect_lower_bound = TRUE
  /\ train_vocab_cutoff = 0
  /\ dead_cell_update_strides = 0
  /\ update_shift \in UpdateShifts
  /\ pc = "init"

\* a call neighbourhood.update(bmus, next_bmus, num_rows, respect) by a caller
\* whose arrays hold bmus and next_bmus and whose epoch counts the calls
NbhUpdate(bmus, next_bmus, respect) ==
  LET res == Neighbourhood_update(topology, height, width, num_cells, values, update_shift,
                                  bmus, next_bmus, data.num_rows, respect)
  IN  /\ epoch < MaxUpdates
      /\ epoch' = epoch + 1
      /\ best_matching_units' = bmus
      /\ next_best_matching_units' = next_bmus
      /\ values' = res.values
      /\ radius_min' \in racy_fold_outcomes(res.values, num_cells)
      /\ radius_max' \in racy_fold_outcomes(res.values, num_cells)
      /\ ret' = res.ret
      /\ call' = [name |-> "update", respect_lower_bound |-> respect]
      /\ pc' = "update"
      /\ UNCHANGED <<otherVars, latticeVars, corpusVars, codebookVars, distances, next_distances,
                     previous_best_matching_units, argVars, gap_error,
                     diffusion_error, topographic_error, convergence_log>>

NbhNext ==
  \E bmus \in [0..(NbhRows - 1) -> 0..(num_cells - 1)] :
    \E next_bmus \in [0..(NbhRows - 1) -> 0..(num_cells - 1)] :
      \E respect \in BOOLEAN : NbhUpdate(bmus, next_bmus, respect)

SpecNbh == NbhInit /\ [][NbhNext]_vars

----------------------------------------------------------------------------
(* Properties of Neighbourhood::update, checked under SpecNbh *)

\* the lattice distance of two cells
LatticeDistance(c1, c2) ==
  distance_function(topology, c1 \div width, c1 % width, c2 \div width, c2 % width,
                    height, width)

\* the rows whose BMU and next BMU are more than one lattice step apart
DiscontinuousRows ==
  {row \in 0..(data.num_rows - 1) :
     LatticeDistance(best_matching_units[row], next_best_matching_units[row]) > 1}

\* what the discontinuity of a row contributes to the lower bound of cell c
Contribution(c, row) ==
  LET c1 == best_matching_units[row]
      c2 == next_best_matching_units[row]
      D == LatticeDistance(c1, c2)
      d1 == LatticeDistance(c, c1)
      d2 == LatticeDistance(c, c2)
  IN  IF Max2(d1, d2) <= D THEN D
      ELSE IF Min2(d1, d2) < D THEN D - Min2(d1, d2)
      ELSE 1

\* lb(c): the maximum, starting from 1, of the contributions
LowerBound(c) == SetMax({1} \cup {Contribution(c, row) : row \in DiscontinuousRows})

AfterUpdate == pc = "update"

\* C5: from an initial radius >= 1 and an update exponent in (0,1], after any
\* sequence of Neighbourhood::update calls (respecting the lower bound or
\* not, with any BMU and next-BMU arrays) every cell's radius is at least 1.
C5_RadiusAtLeastOne ==
  \A c \in Cells : ~radius_lt(values[c], radius_of_int(1))

\* two updates without the lower bound have shrunk a radius to strictly
\* between 1 and 2
C5_Witness ==
  /\ AfterUpdate
  /\ epoch = MaxUpdates
  /\ ~call.respect_lower_bound
  /\ \E c \in Cells : /\ radius_lt(radius_of_int(1), values[c])
                      /\ radius_lt(values[c], radius_of_int(2))

----------------------------------------------------------------------------
(* Specification SpecBatch: Codebook::apply_batch_som_update calls *)

\* the radii of the fields of SpecBatch
BatchRadii == {1, 2}

\* the codebooks SpecBatch starts from: every entry 0, or every entry 1.0
BatchCodebooks(n, dim) == {[j \in 0..(n * dim - 1) |-> v] : v \in {0, FScale}}

BatchInit ==
  /\ LatticeInit(1, 2, "rect_plane")
  /\ data \in Corpora(NumRows, WeightPatterns)
  /\ heap_tail = <<>>
  /\ input_dim = data.num_cols
  /\ array \in BatchCodebooks(num_cells, input_dim)
  /\ values \in [0..(num_cells - 1) -> {radius_of_int(r) : r \in BatchRadii}]
  /\ radius_min = radius_of_int(SetMin(BatchRadii))
  /\ radius_max = radius_of_int(SetMax(BatchRadii))
  /\ update_shift = 1
  /\ ArraysInit(NumRows)
  /\ LocalsInit
  /\ num_epochs = 0
  /\ respect_lower_bound = TRUE
  /\ train_vocab_cutoff = 0
  /\ dead_cell_update_strides = 0
  /\ pc = "init"

\* a call apply_batch_som_update(data, neighbourhood, bmus, cutoff) by a
\* caller whose BMU array holds bmus
BatchUpdate(bmus, cutoff) ==
  /\ best_matching_units' = bmus
  /\ array' = apply_batch_som_update(data, topology, height, width, values, array,
                                     num_cells, input_dim, bmus, cutoff)
  /\ call' = [name |-> "apply_batch_som_update", train_vocab_cutoff |-> cutoff]
  /\ pc' = "apply_batch_som_update"
  /\ UNCHANGED <<otherVars, latticeVars, corpusVars, input_dim, fieldVars, distances,
                 next_best_matching_units, next_distances,
                 previous_best_matching_units, argVars, localVars, ret>>

BatchNext ==
  \E bmus \in [0..(data.num_rows - 1) -> 0..(num_cells - 1)] :
    \E cutoff \in 0..(data.num_cols - 1) : BatchUpdate(bmus, cutoff)

SpecBatch == BatchInit /\ [][BatchNext]_vars

----------------------------------------------------------------------------
(* Properties of apply_batch_som_update, checked under SpecBatch *)

AfterBatch == pc = "apply_batch_som_update"

\* effectiveDim of the batch update just made
BatchEffectiveDim ==
  IF call.train_vocab_cutoff > 0 THEN call.train_vocab_cutoff ELSE input_dim

\* the index set of a row
IndexSet(row) ==
  {indices_in_row(data, row, it) : it \in 0..(num_indices_in_row(data, row) - 1)}

\* h(BMU_row, c) where it is positive, else 0
PositiveInfluence(row, c) ==
  Max2(0, influence(topology, height, width, values, best_matching_units[row], c))

\* the sum over the rows of the positive influences on cell c
Denominator(c) ==
  SumTo([row \in Rows |-> PositiveInfluence(row, c)], data.num_rows)

\* the sum of the positive influences on cell c of the rows whose index set
\* holds dimension dim, dim being below effectiveDim
Numerator(c, dim) ==
  SumTo([row \in Rows |->
           IF dim \in IndexSet(row) /\ dim < BatchEffectiveDim
           THEN PositiveInfluence(row, c) ELSE 0],
        data.num_rows)

\* C4: after apply_batch_som_update, for every cell c whose denominator (the
\* sum over the rows of the positive influences h(BMU_r, c)) is non-zero and
\* every dimension d, w_c[d] is the sum of h(BMU_r, c) over the rows whose
\* index set holds d, with d < effectiveDim, divided by the denominator, the
\* corpus weights not being applied; so 0 <= w_c[d] <= 1, and w_c[d] = 0 for
\* every d >= effectiveDim.
C4_BatchUpdateIsWeightedMean ==
  AfterBatch =>
    \A c \in Cells : Denominator(c) # 0 =>
      \A dim \in 0..(input_dim - 1) :
        LET w == array[c * input_dim + dim]
        IN  /\ w = float_div(Numerator(c, dim), Denominator(c))
            /\ 0 <= w
            /\ w <= FScale
            /\ (dim >= BatchEffectiveDim => w = 0)

\* a batch update with a cutoff over a weighted corpus that has a weight
\* above 1 on a dimension below the cutoff and an index at or above it, and
\* that leaves a prototype entry strictly between 0 and 1
C4_Witness ==
  /\ AfterBatch
  /\ data.has_weights
  /\ call.train_vocab_cutoff > 0
  /\ \E row \in Rows : \E it \in 0..(num_indices_in_row(data, row) - 1) :
       /\ indices_in_row(data, row, it) < BatchEffectiveDim
       /\ data.weights[data.index_pointers[row] + it] > 1
  /\ \E row \in Rows : \E dim \in IndexSet(row) : dim >= BatchEffectiveDim
  /\ \E c \in Cells : \E dim \in 0..(input_dim - 1) :
       /\ Denominator(c) # 0
       /\ 0 < array[c * input_dim + dim]
       /\ array[c * input_dim + dim] < FScale

----------------------------------------------------------------------------
(* Specification SpecDead: the dead-cell fix after a dual BMU search *)

DeadInit ==
  /\ LatticeInit(1, 3, "rect_plane")
  /\ data \in Corpora(DeadRows, {})
  /\ heap_tail = <<>>
  /\ input_dim = data.num_cols
  /\ array \in Codebooks(num_cells, input_dim)
  /\ FieldInit(num_cells, 1)
  /\ ArraysInit(DeadRows)
  /\ LocalsInit
  /\ num_epochs = 0
  /\ respect_lower_bound = TRUE
  /\ train_vocab_cutoff = 0
  /\ dead_cell_update_strides = 1
  /\ update_shift = 0
  /\ pc = "init"

\* train: gap_error = codebook.assign_dead_cells(best_matching_units, distances, num_rows)
DeadAssign ==
  LET res == assign_dead_cells(best_matching_units, distances, data.num_rows, num_cells)
  IN  /\ best_matching_units' = res.best_matching_units
      /\ gap_error' = res.ret
      /\ ret' = res.ret
      /\ call' = [name |-> "assign_dead_cells", best_matching_units |-> best_matching_units]
      /\ pc' = "assign_dead_cells"
      /\ UNCHANGED <<otherVars, latticeVars, corpusVars, codebookVars, fieldVars, distances,
                     next_best_matching_units, next_distances,
                     previous_best_matching_units, argVars, epoch, diffusion_error,
                     topographic_error, convergence_log>>

\* train: gap_error = codebook.gap_error(best_matching_units, num_rows)
DeadGap ==
  LET res == gap_error_of(best_matching_units, data.num_rows, num_cells)
  IN  /\ gap_error' = res
      /\ ret' = res
      /\ call' = [name |-> "gap_error", best_matching_units |-> best_matching_units]
      /\ pc' = "gap_error"
      /\ UNCHANGED <<otherVars, latticeVars, corpusVars, codebookVars, fieldVars, bmuVars,
                     previous_best_matching_units, argVars, epoch, diffusion_error,
                     topographic_error, convergence_log>>

DeadNext ==
  \/ pc = "init" /\ SearchDual
  \/ pc = "find_best_and_next_best_matching_units" /\ DeadAssign
  \/ pc = "find_best_and_next_best_matching_units" /\ DeadGap

SpecDead == DeadInit /\ [][DeadNext]_vars

----------------------------------------------------------------------------
(* Properties of assign_dead_cells, checked under SpecDead *)

AfterAssign == pc = "assign_dead_cells"

\* the cells that were no row's BMU when assign_dead_cells was called
UnusedCells == Cells \ {call.best_matching_units[row] : row \in Rows}

\* T is a set of k highest-distance rows: k rows, none of them nearer to its
\* BMU than a row outside T
HighestDistanceRows(T, k) ==
  /\ T \subseteq Rows
  /\ Cardinality(T) = k
  /\ \A r \in T : \A q \in Rows \ T : distances[q] <= distances[r]

\* C8: when exactly k cells are unused and 1 <= k <= N, after
\* assign_dead_cells each of those k cells is the BMU of one of the k
\* highest-distance rows (k distinct rows, one per unused cell, in cell-index
\* order), and the return value is k / numCells.
C8_DeadCellsTakeHighestDistanceRows ==
  LET k == Cardinality(UnusedCells)
  IN  (AfterAssign /\ 1 <= k /\ k <= data.num_rows) =>
        /\ ret = <<k, num_cells>>
        /\ \E T \in SUBSET Rows :
             /\ HighestDistanceRows(T, k)
             /\ \E f \in [UnusedCells -> T] :
                  /\ \A c1, c2 \in UnusedCells : c1 < c2 => f[c1] < f[c2]
                  /\ \A c \in UnusedCells : best_matching_units[f[c]] = c

\* the part of C8 that holds: the return value, and k distinct rows, at or
\* above the k-th largest distance, taking the k unused cells in order
DeadCellsTakeRowsAtThreshold ==
  LET k == Cardinality(UnusedCells)
  IN  (AfterAssign /\ 1 <= k /\ k <= data.num_rows) =>
        /\ ret = <<k, num_cells>>
        /\ \E T \in SUBSET Rows : \E f \in [UnusedCells -> T] :
             /\ Cardinality(T) = k
             /\ \A r \in T : Cardinality({q \in Rows : distances[q] > distances[r]}) < k
             /\ \A c1, c2 \in UnusedCells : c1 < c2 => f[c1] < f[c2]
             /\ \A c \in UnusedCells : best_matching_units[f[c]] = c

----------------------------------------------------------------------------
(* Specification SpecTrain: train, statement by statement (src/src/som.cpp) *)

\* the corpora of SpecTrain: unweighted, no row empty
TrainCorpora ==
  {d \in Corpora(NumRows, {}) :
     \A row \in 0..(d.num_rows - 1) : num_indices_in_row(d, row) > 0}

\* --dead-cell-update-strides values of the model
Strides == {0, 1, 2}

TrainInit ==
  /\ LatticeInit(1, 2, "rect_plane")
  /\ data \in TrainCorpora
  /\ heap_tail = <<>>
  /\ input_dim = data.num_cols
  /\ array \in BatchCodebooks(num_cells, input_dim)
  /\ FieldInit(num_cells, 2)
  /\ update_shift = 1
  /\ ArraysInit(NumRows)
  /\ LocalsInit
  /\ num_epochs \in 2..MaxEpochs
  /\ respect_lower_bound \in BOOLEAN
  /\ train_vocab_cutoff \in 0..(data.num_cols - 1)
  /\ dead_cell_update_strides \in Strides
  /\ pc = "init"

InLoop == epoch >= 1 /\ epoch <= num_epochs

\* the dual search of train, on the state
TrainDualSearch ==
  LET res == find_best_and_next_best_matching_units(data, heap_tail, array, num_cells, input_dim,
                                                    train_vocab_cutoff)
  IN  /\ best_matching_units' = res.best_matching_units
      /\ distances' = res.distances
      /\ next_best_matching_units' = res.next_best_matching_units
      /\ next_distances' = res.next_distances
      /\ call' = [name |-> "find_best_and_next_best_matching_units",
                  train_vocab_cutoff |-> train_vocab_cutoff]
      /\ pc' = "find_best_and_next_best_matching_units"
      /\ UNCHANGED <<otherVars, latticeVars, corpusVars, codebookVars, fieldVars,
                     previous_best_matching_units, argVars, gap_error, diffusion_error,
                     topographic_error, convergence_log, ret>>

\* the loop head (epoch = 1, or ++epoch with epoch <= num_epochs) and the search
TrainSearch ==
  /\ pc \in {"init", "log"}
  /\ epoch + 1 <= num_epochs
  /\ epoch' = epoch + 1
  /\ TrainDualSearch

TrainAssign ==
  /\ pc = "find_best_and_next_best_matching_units"
  /\ InLoop
  /\ dead_cell_update_due(epoch, dead_cell_update_strides)
  /\ DeadAssign

TrainGap ==
  /\ pc = "find_best_and_next_best_matching_units"
  /\ InLoop
  /\ ~dead_cell_update_due(epoch, dead_cell_update_strides)
  /\ DeadGap

\* diffusion_error = codebook.diffusion_error(bmus, previous_bmus, num_rows)
DiffusionStep ==
  /\ diffusion_error' = diffusion_error_of(topology, height, width, best_matching_units,
                                            previous_best_matching_units, data.num_rows)
  /\ ret' = diffusion_error'
  /\ call' = [name |-> "diffusion_error"]
  /\ pc' = "diffusion_error"
  /\ UNCHANGED <<otherVars, latticeVars, corpusVars, codebookVars, fieldVars, bmuVars,
                 previous_best_matching_units, argVars, epoch, gap_error,
                 topographic_error, convergence_log>>

TrainDiffusion ==
  /\ pc \in {"assign_dead_cells", "gap_error"}
  /\ InLoop
  /\ epoch > 1
  /\ DiffusionStep

\* std::copy of the BMU array into previous_best_matching_units; the
\* preliminary neighbourhood file written after it changes no state
TrainCopy ==
  /\ InLoop
  /\ \/ pc = "diffusion_error"
     \/ pc \in {"assign_dead_cells", "gap_error"} /\ ~(epoch > 1)
  /\ previous_best_matching_units' = best_matching_units
  /\ call' = [name |-> "copy"]
  /\ pc' = "copy"
  /\ UNCHANGED <<otherVars, latticeVars, corpusVars, codebookVars, fieldVars, bmuVars, argVars,
                 localVars, ret>>

TrainBatch ==
  LET cutoff == batch_cutoff(epoch, num_epochs, train_vocab_cutoff)
  IN  /\ pc = "copy"
      /\ array' = apply_batch_som_update(data, topology, height, width, values, array,
                                         num_cells, input_dim, best_matching_units, cutoff)
      /\ call' = [name |-> "apply_batch_som_update", train_vocab_cutoff |-> cutoff]
      /\ pc' = "apply_batch_som_update"
      /\ UNCHANGED <<otherVars, latticeVars, corpusVars, input_dim, fieldVars, bmuVars,
                     previous_best_matching_units, argVars, localVars, ret>>

\* topographic_error = neighbourhood.update(bmus, next_bmus, num_rows, respect_lower_bound)
UpdateStep ==
  LET res == Neighbourhood_update(topology, height, width, num_cells, values, update_shift,
                                  best_matching_units, next_best_matching_units,
                                  data.num_rows, respect_lower_bound)
  IN  /\ values' = res.values
      /\ radius_min' \in racy_fold_outcomes(res.values, num_cells)
      /\ radius_max' \in racy_fold_outcomes(res.values, num_cells)
      /\ topographic_error' = res.ret
      /\ ret' = res.ret
      /\ call' = [name |-> "update", respect_lower_bound |-> respect_lower_bound]
      /\ pc' = "update"
      /\ UNCHANGED <<otherVars, latticeVars, corpusVars, codebookVars, bmuVars,
                     previous_best_matching_units, argVars, epoch, gap_error,
                     diffusion_error, convergence_log>>

TrainUpdate ==
  /\ pc = "apply_batch_som_update"
  /\ UpdateStep

\* the row written to the convergence log under the label `label`
LogStep(label, next_pc) ==
  /\ convergence_log' = Append(convergence_log,
       [Epoch |-> label,
        RadiusMin |-> radius_min,
        RadiusMax |-> radius_max,
        QuantizationError |-> quantization_error_of(distances, data.num_rows),
        TopographicError |-> topographic_error,
        GapError |-> gap_error,
        DiffusionError |-> diffusion_error])
  /\ call' = [name |-> "log"]
  /\ pc' = next_pc
  /\ UNCHANGED <<otherVars, latticeVars, corpusVars, codebookVars, fieldVars, bmuVars,
                 previous_best_matching_units, argVars, epoch, gap_error,
                 diffusion_error, topographic_error, ret>>

TrainLog ==
  /\ pc = "update"
  /\ InLoop
  /\ LogStep(epoch - 1, "log")

\* the loop exit (++epoch, epoch > num_epochs) and the search of the final flush
FinalSearch ==
  /\ pc = "log"
  /\ ~(epoch + 1 <= num_epochs)
  /\ epoch' = epoch + 1
  /\ TrainDualSearch

FinalGap ==
  /\ pc = "find_best_and_next_best_matching_units"
  /\ ~InLoop
  /\ DeadGap

FinalUpdate ==
  /\ pc = "gap_error"
  /\ ~InLoop
  /\ UpdateStep

FinalDiffusion ==
  /\ pc = "update"
  /\ ~InLoop
  /\ DiffusionStep

FinalLog ==
  /\ pc = "diffusion_error"
  /\ ~InLoop
  /\ LogStep(num_epochs, "done")

TrainNext ==
  \/ TrainSearch
  \/ TrainAssign
  \/ TrainGap
  \/ TrainDiffusion
  \/ TrainCopy
  \/ TrainBatch
  \/ TrainUpdate
  \/ TrainLog
  \/ FinalSearch
  \/ FinalGap
  \/ FinalUpdate
  \/ FinalDiffusion
  \/ FinalLog

SpecTrain == TrainInit /\ [][TrainNext]_vars

----------------------------------------------------------------------------
(* Properties of train, checked under SpecTrain *)

\* C1: in train every epoch 1..E performs its steps in this strict order:
\* the BMU search, the dead-cell fix (assign_dead_cells when
\* dead_cell_update_strides > 0 and epoch % stride = 0, else gap_error), the
\* diffusion error (only when epoch > 1), the copy of the BMU array to the
\* previous-BMU array, the batch update, the radius update, the log row; and
\* no step of epoch n+1 starts before the log row of epoch n is written.
C1_EpochStepsInOrder ==
  [][(epoch' >= 1 /\ epoch' <= num_epochs) =>
       /\ (pc' = "find_best_and_next_best_matching_units") <=> (pc \in {"init", "log"})
       /\ pc \in {"init", "log"} =>
            /\ epoch' = epoch + 1
            /\ Len(convergence_log) = epoch
            /\ \A n \in 1..epoch : convergence_log[n].Epoch = n - 1
       /\ pc \notin {"init", "log"} => epoch' = epoch
       /\ pc = "find_best_and_next_best_matching_units" =>
            pc' = IF dead_cell_update_strides > 0 /\ epoch % dead_cell_update_strides = 0
                  THEN "assign_dead_cells" ELSE "gap_error"
       /\ pc \in {"assign_dead_cells", "gap_error"} =>
            pc' = IF epoch > 1 THEN "diffusion_error" ELSE "copy"
       /\ pc = "diffusion_error" => pc' = "copy"
       /\ pc' = "copy" => previous_best_matching_units' = best_matching_units
       /\ pc = "copy" => pc' = "apply_batch_som_update"
       /\ pc = "apply_batch_som_update" => pc' = "update"
       /\ pc = "update" =>
            /\ pc' = "log"
            /\ Len(convergence_log') = epoch
    ]_vars

\* the log row of the last epoch of a run of MaxEpochs epochs in which the
\* dead-cell fix ran in epoch 2 only
C1_Witness ==
  /\ pc = "log"
  /\ num_epochs = MaxEpochs
  /\ epoch = num_epochs
  /\ dead_cell_update_strides = 2
  /\ Len(convergence_log) = num_epochs

\* C9: in train with E epochs and train_vocab_cutoff k > 0, the batch update
\* of every epoch 1..E-1 is made with the cutoff k and the batch update of
\* the final epoch E without it (cutoff 0, the full vocabulary); the BMU
\* search of every epoch, the final one included, is made with the cutoff k.
C9_LastEpochBatchWithoutCutoff ==
  [][train_vocab_cutoff > 0 =>
       /\ pc' = "apply_batch_som_update" =>
            LET cutoff == IF epoch < num_epochs THEN train_vocab_cutoff ELSE 0
            IN  /\ call'.train_vocab_cutoff = cutoff
                /\ array' = apply_batch_som_update(data, topology, height, width, values, array,
                                                   num_cells, input_dim, best_matching_units,
                                                   cutoff)
       /\ pc' = "find_best_and_next_best_matching_units" =>
            /\ call'.train_vocab_cutoff = train_vocab_cutoff
            /\ best_matching_units' =
                 find_best_and_next_best_matching_units(data, heap_tail, array, num_cells,
                   input_dim, train_vocab_cutoff).best_matching_units
    ]_vars

\* the batch update of the final epoch of a train with a cutoff, after which
\* a prototype is non-zero in a dimension at or above the cutoff
C9_Witness ==
  /\ pc = "apply_batch_som_update"
  /\ train_vocab_cutoff > 0
  /\ epoch = num_epochs
  /\ call.train_vocab_cutoff = 0
  /\ \E c \in Cells : \E dim \in train_vocab_cutoff..(input_dim - 1) :
       array[c * input_dim + dim] > 0

----------------------------------------------------------------------------
(* Further properties of the BMU searches, checked under SpecSearch *)

\* the row is empty or its smallest column index is at or above cutoff
OutOfVocabulary(row, cutoff) == \A idx \in IndexSet(row) : idx >= cutoff

\* C11: in both BMU searches every row that is empty or whose smallest column
\* index is at or above the effective cutoff ends with BMU 0 and the distance
\* MAX_REAL_DISTANCE, whatever the codebook holds; in the dual search its
\* next BMU is 0 as well.
C11_SkippedRowsKeepSentinel ==
  /\ AfterSingle =>
       \A row \in Rows : OutOfVocabulary(row, SingleEffectiveDim) =>
         /\ best_matching_units[row] = 0
         /\ distances[row] = MAX_REAL_DISTANCE
  /\ AfterDual =>
       \A row \in Rows : OutOfVocabulary(row, DualEffectiveDim) =>
         /\ best_matching_units[row] = 0
         /\ distances[row] = MAX_REAL_DISTANCE
         /\ next_best_matching_units[row] = 0

\* a single search with corrected distances over a corpus with a non-empty
\* row above the cutoff, while another row found its BMU away from cell 0
C11_Witness ==
  /\ AfterSingle
  /\ call.need_correct_distances
  /\ train_vocab_cutoff > 0
  /\ \E row \in Rows :
       /\ IndexSet(row) # {}
       /\ OutOfVocabulary(row, SingleEffectiveDim)
       /\ data.sum_of_squares[row] > 0
       /\ distances[row] = MAX_REAL_DISTANCE
  /\ \E row \in Rows : best_matching_units[row] # 0

----------------------------------------------------------------------------
(* Specification SpecBatchFrame: batch updates on the BMU array of the state *)

BatchFrameInit ==
  /\ LatticeInit(1, 2, "rect_plane")
  /\ data \in Corpora(NumRows, WeightPatterns)
  /\ heap_tail = <<>>
  /\ input_dim = data.num_cols
  /\ array \in BatchCodebooks(num_cells, input_dim)
  /\ values \in [0..(num_cells - 1) -> {radius_of_int(r) : r \in BatchRadii}]
  /\ radius_min = radius_of_int(SetMin(BatchRadii))
  /\ radius_max = radius_of_int(SetMax(BatchRadii))
  /\ update_shift = 1
  /\ best_matching_units \in [0..(NumRows - 1) -> 0..(num_cells - 1)]
  /\ distances = [row \in 0..(NumRows - 1) |-> 0]
  /\ next_best_matching_units = [row \in 0..(NumRows - 1) |-> 0]
  /\ next_distances = [row \in 0..(NumRows - 1) |-> 0]
  /\ previous_best_matching_units = best_matching_units
  /\ LocalsInit
  /\ num_epochs = 0
  /\ respect_lower_bound = TRUE
  /\ train_vocab_cutoff = 0
  /\ dead_cell_update_strides = 0
  /\ pc = "init"

\* codebook.apply_batch_som_update(data, neighbourhood, best_matching_units, cutoff)
BatchOnState(cutoff) ==
  /\ array' = apply_batch_som_update(data, topology, height, width, values, array,
                                     num_cells, input_dim, best_matching_units, cutoff)
  /\ call' = [name |-> "apply_batch_som_update", train_vocab_cutoff |-> cutoff]
  /\ pc' = "apply_batch_som_update"
  /\ UNCHANGED <<otherVars, latticeVars, corpusVars, input_dim, fieldVars, bmuVars,
                 previous_best_matching_units, argVars, localVars, ret>>

BatchFrameNext == \E cutoff \in 0..(data.num_cols - 1) : BatchOnState(cutoff)

SpecBatchFrame == BatchFrameInit /\ [][BatchFrameNext]_vars

\* the prototype of cell c in the state
Prototype(c) == [dim \in 0..(input_dim - 1) |-> array[c * input_dim + dim]]

\* C12: apply_batch_som_update leaves the prototype vector of every cell
\* whose denominator is zero (no row's BMU has a positive influence on it)
\* unchanged in every dimension, and never modifies the corpus, the BMU array
\* or the neighbourhood radii.
C12_BatchUpdateFrame ==
  [][pc' = "apply_batch_som_update" =>
       /\ \A c \in Cells : Denominator(c) = 0 => Prototype(c)' = Prototype(c)
       /\ data' = data
       /\ best_matching_units' = best_matching_units
       /\ values' = values
       /\ radius_min' = radius_min
       /\ radius_max' = radius_max
    ]_vars

\* after a batch update one cell without influence still holds its prototype
\* of ones while a cell with influence has been rewritten
C12_Witness ==
  /\ AfterBatch
  /\ \E c \in Cells :
       /\ Denominator(c) = 0
       /\ \A dim \in 0..(input_dim - 1) : Prototype(c)[dim] = FScale
  /\ \E c \in Cells :
       /\ Denominator(c) # 0
       /\ \E dim \in 0..(input_dim - 1) : Prototype(c)[dim] # FScale

----------------------------------------------------------------------------
(* Specification SpecPar: the BMU searches, one row iteration of one worker
   at a time, in any order *)

\* the codebooks of SpecPar
ParCodebooks(n, dim) == {arr \in Codebooks(n, dim) : arr[0] = FScale}

ParInit ==
  /\ LatticeInit(1, 2, "rect_plane")
  /\ data \in Corpora(NumRows, {})
  /\ heap_tail = <<>>
  /\ input_dim = data.num_cols
  /\ array \in ParCodebooks(num_cells, input_dim)
  /\ FieldInit(num_cells, 1)
  /\ ArraysInit(NumRows)
  /\ LocalsInit
  /\ num_epochs = 0
  /\ respect_lower_bound = TRUE
  /\ train_vocab_cutoff \in 0..(data.num_cols - 1)
  /\ dead_cell_update_strides = 0
  /\ update_shift = 0
  /\ pc = "init"

\* every row's iteration of a parallel loop still to be run
AllToDo == [row \in 0..(data.num_rows - 1) |-> "todo"]

\* the two std::fill_n of find_best_matching_units, then its first cell iteration
ParStartSingle(need_correct_distances) ==
  /\ pc = "init"
  /\ best_matching_units' = [row \in 0..(data.num_rows - 1) |-> 0]
  /\ distances' = [row \in 0..(data.num_rows - 1) |-> MAX_REAL_DISTANCE]
  /\ omp' = [region |-> "find_best_matching_units", loop |-> "cells", cell_index |-> 0,
             phase |-> AllToDo, distance |-> [row \in 0..(data.num_rows - 1) |-> 0]]
  /\ call' = [name |-> "find_best_matching_units",
              train_vocab_cutoff |-> train_vocab_cutoff,
              need_correct_distances |-> need_correct_distances]
  /\ pc' = "parallel"
  /\ UNCHANGED <<counts, file, latticeVars, corpusVars, codebookVars, fieldVars,
                 next_best_matching_units, next_distances,
                 previous_best_matching_units, argVars, localVars, ret>>

\* the four std::fill_n of the dual search, then its first cell iteration
ParStartDual ==
  /\ pc = "init"
  /\ best_matching_units' = [row \in 0..(data.num_rows - 1) |-> 0]
  /\ next_best_matching_units' = [row \in 0..(data.num_rows - 1) |-> 0]
  /\ distances' = [row \in 0..(data.num_rows - 1) |-> MAX_REAL_DISTANCE]
  /\ next_distances' = [row \in 0..(data.num_rows - 1) |-> MAX_REAL_DISTANCE]
  /\ omp' = [region |-> "find_best_and_next_best_matching_units", loop |-> "cells",
             cell_index |-> 0, phase |-> AllToDo,
             distance |-> [row \in 0..(data.num_rows - 1) |-> 0]]
  /\ call' = [name |-> "find_best_and_next_best_matching_units",
              train_vocab_cutoff |-> train_vocab_cutoff]
  /\ pc' = "parallel"
  /\ UNCHANGED <<counts, file, latticeVars, corpusVars, codebookVars, fieldVars,
                 previous_best_matching_units, argVars, localVars, ret>>

ParIsDual == omp.region = "find_best_and_next_best_matching_units"

\* `if (need_correct_distances)`, which only the single search has
ParNeedsCorrection == IF ParIsDual THEN FALSE ELSE call.need_correct_distances

\* effective_input_dim of the search in progress
ParEffectiveDim ==
  IF train_vocab_cutoff > 0 THEN train_vocab_cutoff
  ELSE IF ParIsDual THEN input_dim ELSE data.num_cols

\* the worker of row `row`: the skip tests, then its private `distance`
ParCompute(row) ==
  /\ pc = "parallel"
  /\ omp.loop = "cells"
  /\ omp.phase[row] = "todo"
  /\ omp' = IF row_skipped(data, row, ParEffectiveDim)
            THEN [omp EXCEPT !.phase[row] = "done"]
            ELSE [omp EXCEPT !.phase[row] = "computed",
                             !.distance[row] =
                               IF ParIsDual
                               THEN dual_distance(data, heap_tail, array, input_dim,
                                                  train_vocab_cutoff, omp.cell_index, row)
                               ELSE single_distance(data, heap_tail, array, input_dim,
                                                    train_vocab_cutoff, omp.cell_index, row)]
  /\ UNCHANGED <<counts, file, latticeVars, corpusVars, codebookVars, fieldVars, bmuVars,
                 previous_best_matching_units, argVars, localVars, call, ret, pc>>

\* the worker of row `row`: `if (distance < distances[row])` and its body
ParCommit(row) ==
  LET st == [bmu |-> best_matching_units[row], dist |-> distances[row],
             next |-> next_best_matching_units[row], next_dist |-> next_distances[row]]
      nxt == IF ParIsDual
             THEN dual_step(st, omp.cell_index, omp.distance[row])
             ELSE IF omp.distance[row] < st.dist
                  THEN [st EXCEPT !.bmu = omp.cell_index, !.dist = omp.distance[row]]
                  ELSE st
  IN  /\ pc = "parallel"
      /\ omp.loop = "cells"
      /\ omp.phase[row] = "computed"
      /\ best_matching_units' = [best_matching_units EXCEPT ![row] = nxt.bmu]
      /\ distances' = [distances EXCEPT ![row] = nxt.dist]
      /\ next_best_matching_units' = [next_best_matching_units EXCEPT ![row] = nxt.next]
      /\ next_distances' = [next_distances EXCEPT ![row] = nxt.next_dist]
      /\ omp' = [omp EXCEPT !.phase[row] = "done"]
      /\ UNCHANGED <<counts, file, latticeVars, corpusVars, codebookVars, fieldVars,
                     previous_best_matching_units, argVars, localVars, call, ret, pc>>

\* the end of one cell iteration and the start of the next
ParNextCell ==
  /\ pc = "parallel"
  /\ omp.loop = "cells"
  /\ barrier_reached(omp.phase)
  /\ omp.cell_index + 1 < num_cells
  /\ omp' = [omp EXCEPT !.cell_index = @ + 1, !.phase = AllToDo]
  /\ UNCHANGED <<counts, file, latticeVars, corpusVars, codebookVars, fieldVars, bmuVars,
                 previous_best_matching_units, argVars, localVars, call, ret, pc>>

\* the end of the cell loop of find_best_matching_units with need_correct_distances
ParToCorrection ==
  /\ pc = "parallel"
  /\ omp.loop = "cells"
  /\ barrier_reached(omp.phase)
  /\ ~(omp.cell_index + 1 < num_cells)
  /\ ParNeedsCorrection
  /\ omp' = [omp EXCEPT !.loop = "correction", !.phase = AllToDo]
  /\ UNCHANGED <<counts, file, latticeVars, corpusVars, codebookVars, fieldVars, bmuVars,
                 previous_best_matching_units, argVars, localVars, call, ret, pc>>

\* the worker of row `row`: distances[row] = max(0, distances[row] + sum_of_squares[row])
ParCorrect(row) ==
  /\ pc = "parallel"
  /\ omp.loop = "correction"
  /\ omp.phase[row] = "todo"
  /\ distances' = [distances EXCEPT ![row] =
                     Max2(0, float_add(@, FScale * FScale * data.sum_of_squares[row]))]
  /\ omp' = [omp EXCEPT !.phase[row] = "done"]
  /\ UNCHANGED <<counts, file, latticeVars, corpusVars, codebookVars, fieldVars,
                 best_matching_units, next_best_matching_units, next_distances,
                 previous_best_matching_units, argVars, localVars, call, ret, pc>>

\* the return of the search
ParReturn ==
  /\ pc = "parallel"
  /\ barrier_reached(omp.phase)
  /\ \/ omp.loop = "correction"
     \/ /\ omp.loop = "cells"
        /\ ~(omp.cell_index + 1 < num_cells)
        /\ ~ParNeedsCorrection
  /\ pc' = omp.region
  /\ omp' = [region |-> "none"]
  /\ UNCHANGED <<counts, file, latticeVars, corpusVars, codebookVars, fieldVars, bmuVars,
                 previous_best_matching_units, argVars, localVars, call, ret>>

ParNext ==
  \/ \E need_correct_distances \in BOOLEAN : ParStartSingle(need_correct_distances)
  \/ ParStartDual
  \/ \E row \in 0..(data.num_rows - 1) : ParCompute(row)
  \/ \E row \in 0..(data.num_rows - 1) : ParCommit(row)
  \/ ParNextCell
  \/ ParToCorrection
  \/ \E row \in 0..(data.num_rows - 1) : ParCorrect(row)
  \/ ParReturn

SpecPar == ParInit /\ [][ParNext]_vars

\* the arrays a search with one worker leaves, the rows taken in order
SequentialSingle ==
  find_best_matching_units(data, heap_tail, array, num_cells, input_dim,
                           train_vocab_cutoff, call.need_correct_distances)

SequentialDual ==
  find_best_and_next_best_matching_units(data, heap_tail, array, num_cells, input_dim,
                                         train_vocab_cutoff)

\* the slots of row `row` in the four arrays of a search
Slot(row) == <<best_matching_units[row], distances[row],
               next_best_matching_units[row], next_distances[row]>>

\* C13: for a fixed corpus and codebook a search leaves, under every
\* interleaving of its row workers, the arrays the search with one worker
\* leaves (the BMU array, and the next-BMU array in the dual search); while a
\* cell iteration runs, a step that writes the slot of a row is a step of that
\* row's worker, and the next cell iteration starts only when every row's
\* iteration of the current one is done.
C13_SearchIsScheduleIndependent ==
  /\ [](/\ AfterSingle =>
             /\ best_matching_units = SequentialSingle.best_matching_units
             /\ distances = SequentialSingle.distances
        /\ AfterDual =>
             /\ best_matching_units = SequentialDual.best_matching_units
             /\ next_best_matching_units = SequentialDual.next_best_matching_units
             /\ distances = SequentialDual.distances
             /\ next_distances = SequentialDual.next_distances)
  /\ [][pc = "parallel" =>
          /\ \A row \in Rows :
               Slot(row)' # Slot(row) =>
                 /\ omp.phase[row] # "done"
                 /\ omp'.phase[row] = "done"
                 /\ \A other \in Rows \ {row} : Slot(other)' = Slot(other)
          /\ (pc' = "parallel" /\ omp'.cell_index # omp.cell_index) =>
               \A row \in Rows : omp.phase[row] = "done"]_vars

\* a search has returned a BMU other than 0 for the last row
C13_Witness ==
  /\ AfterDual \/ AfterSingle
  /\ omp.region = "none"
  /\ best_matching_units[NumRows - 1] = 1
  /\ best_matching_units[0] = 0
  /\ distances[0] < MAX_REAL_DISTANCE

----------------------------------------------------------------------------
(* Specification SpecTopo: the six distance functions on the points of a lattice *)

\* the lattice points (row, column) of the lattice in the state
Points == (0..(height - 1)) \X (0..(width - 1))

\* the distance function of the state's topology between two points
T(p, q) == distance_function(topology, p[1], p[2], q[1], q[2], height, width)

\* the topologies for which main requires an even number of rows
HexaTopologies == {"hexa_plane", "hexa_torus"}

TopoInit ==
  /\ \E topo \in Topologies, h \in {TopoHeight - 1, TopoHeight} :
       /\ topo \in HexaTopologies => h % 2 = 0
       /\ LatticeInit(h, TopoWidth, topo)
  /\ data = CorpusDataset([r \in 1..NbhRows |-> {}], Cardinality(Cols), FALSE, <<>>)
  /\ heap_tail = <<>>
  /\ input_dim = data.num_cols
  /\ array = [j \in 0..(num_cells * input_dim - 1) |-> 0]
  /\ FieldInit(num_cells, 1)
  /\ ArraysInit(NbhRows)
  /\ LocalsInit
  /\ num_epochs = 0
  /\ respect_lower_bound = TRUE
  /\ train_vocab_cutoff = 0
  /\ dead_cell_update_strides = 0
  /\ update_shift = 0
  /\ pc = "init"

\* calls of the distance function on the pairs of three lattice points
Measure(p, q, r) ==
  /\ pc = "init"
  /\ call' = [name |-> "distance_function", p |-> p, q |-> q, r |-> r]
  /\ ret' = [pp |-> T(p, p), pq |-> T(p, q), qp |-> T(q, p), qr |-> T(q, r), pr |-> T(p, r)]
  /\ pc' = "distance_function"
  /\ UNCHANGED <<otherVars, latticeVars, corpusVars, codebookVars, fieldVars, bmuVars,
                 previous_best_matching_units, argVars, localVars>>

TopoNext == \E p \in Points, q \in Points, r \in Points : Measure(p, q, r)

SpecTopo == TopoInit /\ [][TopoNext]_vars

AfterMeasure == pc = "distance_function"

\* C14: for each of the six distance functions and all lattice points p, q, r
\* of the lattice (the height even), T(p,r) <= T(p,q) + T(q,r).
C14_TriangleInequality == AfterMeasure => ret.pr <= ret.pq + ret.qr

\* C15: for each of the six distance functions and all lattice points p, q of
\* the lattice, T(p,p) = 0 and T(p,q) = T(q,p).
C15_IdentityAndSymmetry == AfterMeasure => ret.pp = 0 /\ ret.pq = ret.qp

\* a lattice on which the measured distances tell the functions apart
C15_Witness ==
  /\ AfterMeasure
  /\ topology = "hexa_torus"
  /\ call.p = <<0, 0>>
  /\ call.q = <<height - 1, width - 1>>
  /\ ret.pq = 1
  /\ ret.qp = 1

\* the six cells next to the cell p on the pointy-top hexagonal lattice whose
\* odd rows are shifted by half a cell: wrapped on the torus, those inside the
\* lattice on the plane
HexNeighbours(p) ==
  LET shift == IF p[1] % 2 = 0 THEN -1 ELSE 0
      cells == {<<p[1] - 1, p[2] + shift>>, <<p[1] - 1, p[2] + shift + 1>>,
                <<p[1], p[2] - 1>>, <<p[1], p[2] + 1>>,
                <<p[1] + 1, p[2] + shift>>, <<p[1] + 1, p[2] + shift + 1>>}
  IN  IF topology = "hexa_torus"
      THEN {<<c[1] % height, c[2] % width>> : c \in cells}
      ELSE cells \cap Points

\* C16: on hexa/plane and hexa/torus the six hex-neighbours of any cell are at
\* distance exactly 1 from it, on the torus the neighbours reached by wrapping
\* rows and columns included.
C16_HexNeighboursAtDistanceOne ==
  (AfterMeasure /\ topology \in HexaTopologies) =>
    (call.q \in HexNeighbours(call.p) => ret.pq = 1)

\* an odd-row cell in the last row and column and its neighbour across both seams
C16_Witness ==
  /\ AfterMeasure
  /\ topology = "hexa_torus"
  /\ call.p = <<height - 1, width - 1>>
  /\ call.q = <<0, 0>>
  /\ call.q \in HexNeighbours(call.p)
  /\ ret.pq = 1

----------------------------------------------------------------------------
(* Specification SpecGap: gap_error on any BMU array *)

GapInit ==
  /\ \E w \in 1..GapCells : LatticeInit(1, w, "rect_plane")
  /\ \E n \in 0..DeadRows :
       /\ data = CorpusDataset([r \in 1..n |-> {}], Cardinality(Cols), FALSE, <<>>)
       /\ best_matching_units \in [0..(n - 1) -> 0..(num_cells - 1)]
       /\ distances = [row \in 0..(n - 1) |-> 0]
       /\ next_best_matching_units = [row \in 0..(n - 1) |-> 0]
       /\ next_distances = [row \in 0..(n - 1) |-> 0]
       /\ previous_best_matching_units = [row \in 0..(n - 1) |-> 0]
  /\ heap_tail = <<>>
  /\ input_dim = data.num_cols
  /\ array = [j \in 0..(num_cells * input_dim - 1) |-> 0]
  /\ FieldInit(num_cells, 1)
  /\ LocalsInit
  /\ num_epochs = 0
  /\ respect_lower_bound = TRUE
  /\ train_vocab_cutoff = 0
  /\ dead_cell_update_strides = 0
  /\ update_shift = 0
  /\ pc = "init"

GapNext == pc = "init" /\ DeadGap

SpecGap == GapInit /\ [][GapNext]_vars

\* C17: for any BMU array over num_rows rows, gap_error returns
\* 1 - |{BMU_r}| / num_cells, the number of cells that are no row's BMU over
\* num_cells, and leaves the BMU array unchanged.
C17_GapErrorIsUnusedFraction ==
  [][pc' = "gap_error" =>
       /\ ret'[2] # 0
       /\ ret'[1] * num_cells =
            (num_cells - Cardinality({best_matching_units[row] : row \in Rows})) * ret'[2]
       /\ ret'[1] = Cardinality(Cells \ {best_matching_units[row] : row \in Rows})
       /\ best_matching_units' = best_matching_units]_vars

\* three rows on two of four cells: two cells are no row's BMU
C17_Witness ==
  /\ pc = "gap_error"
  /\ num_cells = GapCells
  /\ data.num_rows = DeadRows
  /\ best_matching_units[0] = best_matching_units[DeadRows - 1]
  /\ best_matching_units[0] # best_matching_units[1]
  /\ ret = <<num_cells - 2, num_cells>>

----------------------------------------------------------------------------
(* Semantic map: src/src/smap.cpp *)

\* std::numeric_limits<CountType>::max()
MAX_COUNT == 2 ^ CountBits - 1

\* the count tensor laid out by cell first: vocabulary_size * cell + vocab_index
count_slot_by_cell(cells, vocabulary_size, vocab_index, best_matching_unit) ==
  vocabulary_size * best_matching_unit + vocab_index

\* build_counts: the entry num_cells * vocab_index + best_matching_unit
count_slot(cells, vocabulary_size, vocab_index, best_matching_unit) ==
  cells * vocab_index + best_matching_unit

\* the capacity test one too late: the entry may still reach MAX_COUNT
count_full_at_max(count) == count >= MAX_COUNT

\* build_counts: counts[...] >= MAX_COUNT - 1
count_full(count) == count >= MAX_COUNT - 1

----------------------------------------------------------------------------
(* Specification SpecCounts: SemanticMap::build on a corpus and a BMU array *)

CountsInit ==
  /\ LatticeInit(1, 2, "rect_plane")
  /\ data \in Corpora(DeadRows, {})
  /\ heap_tail = <<>>
  /\ input_dim = data.num_cols
  /\ array = [j \in 0..(num_cells * input_dim - 1) |-> 0]
  /\ FieldInit(num_cells, 1)
  /\ best_matching_units \in [0..(DeadRows - 1) -> 0..(num_cells - 1)]
  /\ distances = [row \in 0..(DeadRows - 1) |-> 0]
  /\ next_best_matching_units = [row \in 0..(DeadRows - 1) |-> 0]
  /\ next_distances = [row \in 0..(DeadRows - 1) |-> 0]
  /\ previous_best_matching_units = [row \in 0..(DeadRows - 1) |-> 0]
  /\ LocalsInit
  /\ num_epochs = 0
  /\ respect_lower_bound = TRUE
  /\ train_vocab_cutoff = 0
  /\ dead_cell_update_strides = 0
  /\ update_shift = 0
  /\ pc = "init"

\* build_counts up to its loops: the tensor is allocated and zeroed
CountsStart ==
  /\ pc = "init"
  /\ counts = null_counts
  /\ counts' = [allocated |-> TRUE,
                entries |-> [j \in 0..(num_cells * data.num_cols - 1) |-> 0]]
  /\ call' = [name |-> "build_counts", row |-> 0, i |-> 0]
  /\ pc' = "build_counts"
  /\ UNCHANGED <<omp, file, latticeVars, corpusVars, codebookVars, fieldVars, bmuVars,
                 previous_best_matching_units, argVars, localVars, ret>>

\* one iteration of the inner loop: the capacity test, then delete_counts and
\* return, or the increment
CountsEntry ==
  LET slot == count_slot(num_cells, data.num_cols,
                         indices_in_row(data, call.row, call.i),
                         best_matching_units[call.row])
  IN  /\ pc = "build_counts"
      /\ call.row < data.num_rows
      /\ call.i < num_indices_in_row(data, call.row)
      /\ IF count_full(counts.entries[slot])
         THEN /\ counts' = null_counts
              /\ pc' = "build_counts_aborted"
              /\ call' = call
         ELSE /\ counts' = [counts EXCEPT !.entries[slot] = (@ + 1) % (2 ^ CountBits)]
              /\ pc' = pc
              /\ call' = [call EXCEPT !.i = @ + 1]
      /\ UNCHANGED <<omp, file, latticeVars, corpusVars, codebookVars, fieldVars, bmuVars,
                     previous_best_matching_units, argVars, localVars, ret>>

\* the end of the inner loop: ++row
CountsNextRow ==
  /\ pc = "build_counts"
  /\ call.row < data.num_rows
  /\ ~(call.i < num_indices_in_row(data, call.row))
  /\ call' = [call EXCEPT !.row = @ + 1, !.i = 0]
  /\ UNCHANGED <<otherVars, latticeVars, corpusVars, codebookVars, fieldVars, bmuVars,
                 previous_best_matching_units, argVars, localVars, ret, pc>>

\* the end of the outer loop: build_counts returns with the tensor built
CountsReturn ==
  /\ pc = "build_counts"
  /\ ~(call.row < data.num_rows)
  /\ pc' = "build_counts_done"
  /\ UNCHANGED <<otherVars, latticeVars, corpusVars, codebookVars, fieldVars, bmuVars,
                 previous_best_matching_units, argVars, localVars, call, ret>>

CountsNext == CountsStart \/ CountsEntry \/ CountsNextRow \/ CountsReturn

SpecCounts == CountsInit /\ [][CountsNext]_vars

\* the rows whose BMU is cell c and whose sparse index set contains v
RowsAt(c, v) == {row \in Rows : best_matching_units[row] = c /\ v \in IndexSet(row)}

\* C18: after build_counts completes without a capacity abort, for every cell
\* c and vocabulary index v, counts[num_cells * v + c] is the number of rows
\* with BMU c whose sparse index set contains v; hence for every v the sum over
\* the cells is the number of rows that contain v.
C18_CountsAreCooccurrences ==
  pc = "build_counts_done" =>
    /\ \A c \in Cells : \A v \in 0..(data.num_cols - 1) :
         counts.entries[num_cells * v + c] = Cardinality(RowsAt(c, v))
    /\ \A v \in 0..(data.num_cols - 1) :
         SumTo([c \in Cells |-> counts.entries[num_cells * v + c]], num_cells)
           = Cardinality({row \in Rows : v \in IndexSet(row)})

\* two rows with index 1 at cell 0, one row with index 0 at cell 1
C18_Witness ==
  /\ pc = "build_counts_done"
  /\ counts.entries[num_cells * 1 + 0] = 2
  /\ counts.entries[num_cells * 0 + 1] = 1
  /\ counts.entries[num_cells * 0 + 0] = 0
  /\ counts.entries[num_cells * 1 + 1] = 0

\* C19: during build_counts no count entry ever exceeds MAX_COUNT - 1 (2^32-2
\* in the program); when an increment would push an entry above it, count
\* building stops, the tensor is dropped (counts is null) and the BMU array is
\* left as it was.
C19_CapacityAbortDropsCounts ==
  /\ [](counts.allocated => \A j \in DOMAIN counts.entries : counts.entries[j] <= MAX_COUNT - 1)
  /\ [][(/\ pc = "build_counts"
         /\ call.row < data.num_rows
         /\ call.i < num_indices_in_row(data, call.row)
         /\ counts.entries[num_cells * indices_in_row(data, call.row, call.i)
                     + best_matching_units[call.row]] + 1 > MAX_COUNT - 1)
          => /\ pc' = "build_counts_aborted"
             /\ counts' = null_counts
             /\ best_matching_units' = best_matching_units]_vars
  /\ [][pc' = "build_counts_aborted" /\ pc # pc' =>
          \E j \in DOMAIN counts.entries : counts.entries[j] = MAX_COUNT - 1]_vars

\* the third row at the same cell with the same index aborted the build
C19_Witness ==
  /\ pc = "build_counts_aborted"
  /\ counts = null_counts
  /\ call.row = DeadRows - 1
  /\ \A row \in Rows : best_matching_units[row] = 1

----------------------------------------------------------------------------
(* Codebook files: src/src/som.cpp, src/src/data.hpp *)

RECURSIVE le_bytes(_, _)
\* the object representation of an unsigned value in n bytes, as file.write
\* copies it on the little-endian machines the program is built for
le_bytes(value, n) ==
  IF n = 0 THEN <<>> ELSE <<value % 256>> \o le_bytes(value \div 256, n - 1)

RECURSIVE le_value(_)
\* the value whose object representation file.read copies from the bytes
le_value(bytes) ==
  IF Len(bytes) = 0 THEN 0 ELSE bytes[1] + 256 * le_value(Tail(bytes))

RECURSIVE raw_floats(_, _, _)
\* the bytes of the size Floats of array.data(), from element i on
raw_floats(arr, size, i) ==
  IF i >= size THEN <<>> ELSE le_bytes(arr[i], 4) \o raw_floats(arr, size, i + 1)

\* Codebook::save_to_file: the bytes it writes
save_to_file(hgt, wid, dim, arr, size) ==
  le_bytes(0, 1) \o le_bytes(hgt, 8) \o le_bytes(wid, 8) \o le_bytes(dim, 8)
    \o raw_floats(arr, size, 0)

\* the bytes at 0-based offsets from..from+n-1 of a file; a read past the end
\* of the file leaves the zeros of the resized array
read_bytes(bytes, from, n) ==
  [k \in 1..n |-> IF from + k <= Len(bytes) THEN bytes[from + k] ELSE 0]

\* load_from_file with the two lattice dimensions read in the wrong order
load_from_file_swapped(bytes) ==
  LET format == le_value(read_bytes(bytes, 0, 1))
      wid == le_value(read_bytes(bytes, 1, 8)) % 65536
      hgt == le_value(read_bytes(bytes, 9, 8)) % 65536
      dim == le_value(read_bytes(bytes, 17, 8))
      cells == ToCellIndex(hgt * wid)
      size == cells * dim
  IN  [ok |-> format = 0, height |-> hgt, width |-> wid, input_dim |-> dim,
       num_cells |-> cells,
       array |-> [i \in 0..(size - 1) |-> le_value(read_bytes(bytes, 25 + 4 * i, 4))]]

\* Codebook::load_from_file: the fields it sets from the bytes of the file
load_from_file(bytes) ==
  LET format == le_value(read_bytes(bytes, 0, 1))
      hgt == le_value(read_bytes(bytes, 1, 8)) % 65536
      wid == le_value(read_bytes(bytes, 9, 8)) % 65536
      dim == le_value(read_bytes(bytes, 17, 8))
      cells == ToCellIndex(hgt * wid)
      size == cells * dim
  IN  [ok |-> format = 0, height |-> hgt, width |-> wid, input_dim |-> dim,
       num_cells |-> cells,
       array |-> [i \in 0..(size - 1) |-> le_value(read_bytes(bytes, 25 + 4 * i, 4))]]

----------------------------------------------------------------------------
(* Specification SpecFile: a codebook saved to a file and constructed from it *)

\* the Floats of the saved codebooks: 0.0 and a value of two bytes
FileValues == {0, 258}

FileInit ==
  /\ \E h \in 1..FileCells, w \in 1..FileCells :
       /\ h * w <= FileCells
       /\ LatticeInit(h, w, "circ_plane")
  /\ input_dim \in 1..FileDim
  /\ array \in [0..(num_cells * input_dim - 1) -> FileValues]
  /\ data = CorpusDataset([r \in 1..NbhRows |-> {}], Cardinality(Cols), FALSE, <<>>)
  /\ heap_tail = <<>>
  /\ FieldInit(num_cells, 1)
  /\ ArraysInit(NbhRows)
  /\ LocalsInit
  /\ num_epochs = 0
  /\ respect_lower_bound = TRUE
  /\ train_vocab_cutoff = 0
  /\ dead_cell_update_strides = 0
  /\ update_shift = 0
  /\ pc = "init"

\* codebook->save_to_file(filename); the test keeps the saved values
Save ==
  /\ pc = "init"
  /\ file' = save_to_file(height, width, input_dim, array, num_cells * input_dim)
  /\ call' = [name |-> "save_to_file", height |-> height, width |-> width,
              input_dim |-> input_dim, array |-> array]
  /\ pc' = "save_to_file"
  /\ UNCHANGED <<omp, counts, latticeVars, corpusVars, codebookVars, fieldVars, bmuVars,
                 previous_best_matching_units, argVars, localVars, ret>>

\* delete codebook; codebook = new Codebook(filename)
Load ==
  LET res == load_from_file(file)
  IN  /\ pc = "save_to_file"
      /\ height' = res.height
      /\ width' = res.width
      /\ input_dim' = res.input_dim
      /\ num_cells' = res.num_cells
      /\ array' = res.array
      /\ topology' = "circ_plane"
      /\ pc' = IF res.ok THEN "load_from_file" ELSE "runtime_error"
      /\ UNCHANGED <<otherVars, corpusVars, fieldVars, bmuVars,
                     previous_best_matching_units, argVars, localVars, call, ret>>

FileNext == Save \/ Load

SpecFile == FileInit /\ [][FileNext]_vars

\* C20: for any codebook with dimensions H, W, D and any values, save_to_file
\* followed by the construction of a Codebook from that file yields the same
\* height, width and input dimension, and get_value(i) is the saved value for
\* every i < H * W * D.
C20_CodebookRoundTrip ==
  pc \in {"load_from_file", "runtime_error"} =>
    /\ pc = "load_from_file"
    /\ height = call.height
    /\ width = call.width
    /\ input_dim = call.input_dim
    /\ \A i \in 0..(call.height * call.width * call.input_dim - 1) :
         /\ i < num_cells * input_dim
         /\ array[i] = call.array[i]

\* a loaded 1 x 2 codebook of dimension 2 whose values differ
C20_Witness ==
  /\ pc = "load_from_file"
  /\ height = 1
  /\ width = FileCells
  /\ input_dim = FileDim
  /\ array[0] = 258
  /\ array[num_cells * input_dim - 1] = 0
  /\ Len(file) = 25 + 4 * num_cells * input_dim

----------------------------------------------------------------------------
(* BMU files: src/src/smap.cpp *)

RECURSIVE raw_cell_indices(_, _, _)
\* the bytes of the CellIndexType entries of best_matching_units, from row on
raw_cell_indices(bmus, dataset_size, row) ==
  IF row >= dataset_size
  THEN <<>>
  ELSE le_bytes(bmus[row], 2) \o raw_cell_indices(bmus, dataset_size, row + 1)

\* SemanticMap::save_best_matching_units_to_file: the bytes it writes
save_best_matching_units_to_file(hgt, wid, vocabulary_size, dataset_size, bmus) ==
  le_bytes(0, 1) \o le_bytes(hgt, 8) \o le_bytes(wid, 8)
    \o le_bytes(vocabulary_size, 8) \o le_bytes(dataset_size, 8)
    \o raw_cell_indices(bmus, dataset_size, 0)

\* the n bytes file.read stores from offset `from`; where the file has ended
\* the destination keeps what it held, the byte `tail`
read_bytes_or(bytes, from, n, tail) ==
  [k \in 1..n |-> IF from + k <= Len(bytes) THEN bytes[from + k] ELSE tail]

\* SemanticMap::load_best_matching_units_from_file: the fields it sets from
\* the bytes of the file; the casts keep the low 2 or 4 bytes of each uint64
load_best_matching_units_from_file(bytes, tail) ==
  LET format == le_value(read_bytes_or(bytes, 1, 1, tail))
      hgt == le_value(read_bytes_or(bytes, 2, 2, tail))
      wid == le_value(read_bytes_or(bytes, 10, 2, tail))
      vocabulary_size == le_value(read_bytes_or(bytes, 18, 4, tail))
      dataset_size == le_value(read_bytes_or(bytes, 26, 4, tail))
  IN  [ok |-> format = 0, height |-> hgt, width |-> wid,
       num_cells |-> ToCellIndex(hgt * wid),
       vocabulary_size |-> vocabulary_size, dataset_size |-> dataset_size,
       best_matching_units |->
         [row \in 0..(dataset_size - 1) |->
            le_value(read_bytes_or(bytes, 34 + 2 * row, 2, tail))]]

----------------------------------------------------------------------------
(* Specification SpecBmuFile: the BMUs of a map saved to a file and loaded *)

\* heights of the saved maps: one and two rows, and 256 rows, whose low byte is 0
BmuFileHeights == {1, 2, 256}

BmuFileInit ==
  /\ \E h \in BmuFileHeights, w \in 1..FileCells : LatticeInit(h, w, "rect_plane")
  /\ \E n \in 0..NumRows :
       /\ data = CorpusDataset([r \in 1..n |-> {}], Cardinality(Cols), FALSE, <<>>)
       /\ best_matching_units \in [0..(n - 1) -> {0, num_cells - 1}]
       /\ distances = [row \in 0..(n - 1) |-> 0]
       /\ next_best_matching_units = [row \in 0..(n - 1) |-> 0]
       /\ next_distances = [row \in 0..(n - 1) |-> 0]
       /\ previous_best_matching_units = [row \in 0..(n - 1) |-> 0]
  /\ heap_tail = <<>>
  /\ input_dim = data.num_cols
  /\ array = <<>>
  /\ values = <<>>
  /\ radius_min = radius_of_int(1)
  /\ radius_max = radius_of_int(1)
  /\ LocalsInit
  /\ num_epochs = 0
  /\ respect_lower_bound = TRUE
  /\ train_vocab_cutoff = 0
  /\ dead_cell_update_strides = 0
  /\ update_shift = 0
  /\ pc = "init"

\* semantic_map.save_best_matching_units_to_file(filename)
SaveBmus ==
  /\ pc = "init"
  /\ file' = save_best_matching_units_to_file(height, width, data.num_cols, data.num_rows,
                                              best_matching_units)
  /\ call' = [name |-> "save_best_matching_units_to_file", height |-> height,
              width |-> width, vocabulary_size |-> data.num_cols,
              dataset_size |-> data.num_rows, best_matching_units |-> best_matching_units]
  /\ pc' = "save_best_matching_units_to_file"
  /\ UNCHANGED <<omp, counts, latticeVars, corpusVars, codebookVars, fieldVars, bmuVars,
                 previous_best_matching_units, argVars, localVars, ret>>

\* SemanticMap(counts_filename, best_matching_units_filename): the load of the BMUs
LoadBmus ==
  /\ pc = "save_best_matching_units_to_file"
  /\ \E tail \in TailBytes :
       LET res == load_best_matching_units_from_file(file, tail)
       IN  IF res.ok
           THEN /\ height' = res.height
                /\ width' = res.width
                /\ num_cells' = res.num_cells
                /\ best_matching_units' = res.best_matching_units
                /\ ret' = [vocabulary_size |-> res.vocabulary_size,
                           dataset_size |-> res.dataset_size]
                /\ pc' = "load_best_matching_units_from_file"
           ELSE /\ pc' = "runtime_error"
                /\ UNCHANGED <<height, width, num_cells, best_matching_units, ret>>
  /\ UNCHANGED <<otherVars, topology, corpusVars, codebookVars, fieldVars, distances,
                 next_best_matching_units, next_distances,
                 previous_best_matching_units, argVars, localVars, call>>

BmuFileNext == SaveBmus \/ LoadBmus

SpecBmuFile == BmuFileInit /\ [][BmuFileNext]_vars

\* C21: a BMU file written by save_best_matching_units_to_file is read back by
\* load_best_matching_units_from_file with the same height, width, vocabulary
\* size, dataset size and BMU array, for every map.
C21_BmuFileRoundTrip ==
  pc \in {"load_best_matching_units_from_file", "runtime_error"} =>
    /\ pc = "load_best_matching_units_from_file"
    /\ height = call.height
    /\ width = call.width
    /\ ret.vocabulary_size = call.vocabulary_size
    /\ ret.dataset_size = call.dataset_size
    /\ best_matching_units = call.best_matching_units

----------------------------------------------------------------------------
(* Driver: src/src/main.cpp *)

\* create_semantic_map: the what() of the exception that leaves it, "" when
\* it returns; the checks on the arguments that the runs vary, in the order
\* of the code
create_semantic_map(args) ==
  IF ~args.name_given THEN "Please provide a name with --name"
  ELSE IF args.num_epochs < 2 THEN "The number of epochs must be at least 2"
  ELSE IF args.width < 1 \/ args.height < 1
       THEN "The map width or height must be at least 1"
  ELSE IF args.local_topology = "hexa" /\ args.height % 2 = 1
       THEN "For a hexagonal grid the number of rows has to be even"
  ELSE IF args.corpus = "missing" THEN "File does not exist"
  ELSE IF args.corpus = "unknown format" THEN "Expected file format version 2 or 3"
  ELSE IF args.global_topology \notin {"plane", "torus"}
       THEN "Invalid topology specification"
  ELSE ""

\* the try block of main: the what() of the exception it catches, "" if none
main_try(args) ==
  IF args.mode = "create" THEN create_semantic_map(args)
  ELSE IF args.mode \in {"--author", "--version", "--help", "-h"} THEN ""
  ELSE "Unknown mode"

----------------------------------------------------------------------------
(* Specification SpecMain: one run of the driver *)

\* the command lines, corpus files and hosts of the runs
MainArgs ==
  [mode : {"create", "--author", "--version", "--help", "-h", "train"},
   name_given : BOOLEAN,
   num_epochs : {MaxEpochs - 2, MaxEpochs - 1},
   height : 0..NumRows,
   width : {1},
   local_topology : {"hexa", "rect"},
   global_topology : {"torus", "moebius"},
   corpus : {"ok", "missing", "unknown format"},
   big_endian : BOOLEAN]

MainInit ==
  /\ LatticeInit(1, 1, "rect_plane")
  /\ data = CorpusDataset([r \in 1..NbhRows |-> {}], Cardinality(Cols), FALSE, <<>>)
  /\ heap_tail = <<>>
  /\ input_dim = data.num_cols
  /\ array = [j \in 0..(num_cells * input_dim - 1) |-> 0]
  /\ FieldInit(num_cells, 1)
  /\ ArraysInit(NbhRows)
  /\ epoch = 0
  /\ gap_error = <<0, 1>>
  /\ diffusion_error = <<0, 1>>
  /\ topographic_error = <<0, 1>>
  /\ convergence_log = <<>>
  /\ \E args \in MainArgs : call = [name |-> "main", args |-> args]
  /\ ret = <<0, 1>>
  /\ omp = [region |-> "none"]
  /\ counts = null_counts
  /\ file = <<>>
  /\ num_epochs = 0
  /\ respect_lower_bound = TRUE
  /\ train_vocab_cutoff = 0
  /\ dead_cell_update_strides = 0
  /\ update_shift = 0
  /\ pc = "init"

\* main on a big-endian host: the message and return 1
MainBigEndian ==
  /\ pc = "init"
  /\ call.args.big_endian
  /\ ret' = [exit_code |-> 1, exception |-> "",
             cerr |-> <<"Sorry, smap does not work on big endian systems">>]
  /\ pc' = "exit"
  /\ UNCHANGED <<otherVars, latticeVars, corpusVars, codebookVars, fieldVars, bmuVars,
                 previous_best_matching_units, argVars, localVars, call>>

\* main on a little-endian host: the try block, the catch clause, return 0
MainCommand ==
  LET what == main_try(call.args)
  IN  /\ pc = "init"
      /\ ~call.args.big_endian
      /\ ret' = [exit_code |-> 0, exception |-> what,
                 cerr |-> IF what = "" THEN <<>> ELSE <<what>>]
      /\ pc' = "exit"
      /\ UNCHANGED <<otherVars, latticeVars, corpusVars, codebookVars, fieldVars, bmuVars,
                     previous_best_matching_units, argVars, localVars, call>>

MainNext == MainBigEndian \/ MainCommand

SpecMain == MainInit /\ [][MainNext]_vars

\* C22: when the driver's command fails with an exception, the message is
\* printed to stderr and the exit code is non-zero; 0 is returned only on
\* success, and 1 on a big-endian host.
C22_FailureExitsNonZero ==
  pc = "exit" =>
    /\ ret.exception # "" => (ret.cerr = <<ret.exception>> /\ ret.exit_code # 0)
    /\ ret.exit_code = 0 => ret.exception = ""
    /\ call.args.big_endian => ret.exit_code = 1

----------------------------------------------------------------------------
(* Corpus files: src/src/data.cpp *)

\* file.read into a buffer that holds `old`: the bytes the file still has from
\* offset pos are stored, the rest of the buffer keeps what it held (once a
\* read has met the end of the file every later read stores nothing)
read_into(bytes, pos, old) ==
  [k \in 1..Len(old) |-> IF pos + k <= Len(bytes) THEN bytes[pos + k] ELSE old[k]]

RECURSIVE read_entries(_, _, _, _, _, _, _)
\* the loops that read the entries of a row, `size` bytes each, through the
\* buffer buf into arr from index_pointer on
read_entries(bytes, pos, buf, size, entries_left, index_pointer, arr) ==
  IF entries_left = 0
  THEN [pos |-> pos, buf |-> buf, index_pointer |-> index_pointer, arr |-> arr]
  ELSE LET b == read_into(bytes, pos, buf)
       IN  read_entries(bytes, pos + size, b, size, entries_left - 1, index_pointer + 1,
                        [p \in (DOMAIN arr) \cup {index_pointer} |->
                           IF p = index_pointer THEN le_value(b) ELSE arr[p]])

RECURSIVE read_rows(_, _, _, _, _)
\* CorpusDataset's constructor: the loop over the rows, from the state st on
read_rows(bytes, has_weights, num_rows, row, st) ==
  IF row >= num_rows
  THEN st
  ELSE LET b4 == read_into(bytes, st.pos, st.buffer_4byte)
           entires_in_row == le_value(b4)
           idx == read_entries(bytes, st.pos + 4, b4, 4, entires_in_row,
                               st.index_pointer, st.indices)
           wts == IF has_weights
                  THEN read_entries(bytes, idx.pos, st.buffer_1byte, 1, entires_in_row,
                                    st.index_pointer, st.weights)
                  ELSE [pos |-> idx.pos, buf |-> st.buffer_1byte,
                        index_pointer |-> idx.index_pointer, arr |-> st.weights]
       IN  read_rows(bytes, has_weights, num_rows, row + 1,
                     [pos |-> wts.pos, buffer_1byte |-> wts.buf, buffer_4byte |-> idx.buf,
                      index_pointer |-> wts.index_pointer,
                      index_pointers |->
                        [r \in (DOMAIN st.index_pointers) \cup {row + 1} |->
                           IF r = row + 1 THEN st.index_pointer + entires_in_row
                           ELSE st.index_pointers[r]],
                      indices |-> idx.arr, weights |-> wts.arr])

\* CorpusDataset::CorpusDataset on a file that exists: the exception that
\* leaves it, or the matrix it builds. The buffers come from new[] and hold
\* what the heap held (tail) until a read fills them.
corpus_load(bytes, tail) ==
  LET b1 == read_into(bytes, 0, <<tail>>)
      format_version == b1[1]
      b8 == read_into(bytes, 1, <<tail, 0, 0, 0, 0, 0, 0, 0>>)
      b4_rows == read_into(bytes, 9, <<tail, 0, 0, 0>>)
      b4_cols == read_into(bytes, 13, b4_rows)
      num_rows == le_value(b4_rows)
      st == read_rows(bytes, format_version = 2, num_rows, 0,
                      [pos |-> 17, buffer_1byte |-> b1, buffer_4byte |-> b4_cols,
                       index_pointer |-> 0, index_pointers |-> [r \in {0} |-> 0],
                       indices |-> <<>>, weights |-> <<>>])
  IN  IF format_version \notin {2, 3}
      THEN [exception |-> "Expected file format version 2 or 3"]
      ELSE [exception |-> "",
            has_weights |-> format_version = 2,
            num_non_zero |-> le_value(b8),
            num_rows |-> num_rows,
            num_cols |-> le_value(b4_cols),
            index_pointers |-> st.index_pointers,
            indices |-> st.indices,
            weights |-> st.weights]

RECURSIVE corpus_rows_bytes(_, _)
\* the rows of a corpus file from row on: the entry count, the indices and,
\* in version 2, the weights
corpus_rows_bytes(d, row) ==
  IF row >= d.num_rows
  THEN <<>>
  ELSE LET n == num_indices_in_row(d, row)
           from == d.index_pointers[row]
       IN  le_bytes(n, 4)
             \o raw_floats([p \in 0..(n - 1) |-> d.indices[from + p]], n, 0)
             \o (IF d.has_weights THEN [p \in 1..n |-> d.weights[from + p - 1]] ELSE <<>>)
             \o corpus_rows_bytes(d, row + 1)

\* the corpus file of the matrix d that declares declared_cols columns
corpus_file(d, declared_cols) ==
  le_bytes(IF d.has_weights THEN 2 ELSE 3, 1) \o le_bytes(d.num_non_zero, 8)
    \o le_bytes(d.num_rows, 4) \o le_bytes(declared_cols, 4) \o corpus_rows_bytes(d, 0)

----------------------------------------------------------------------------
(* Specification SpecLoad: CorpusDataset constructed from a corpus file *)

LoadInit ==
  /\ LatticeInit(1, 1, "rect_plane")
  /\ \E d \in Corpora(NumRows, WeightPatterns), declared_cols \in 1..Cardinality(Cols) :
       \E length \in 0..Len(corpus_file(d, declared_cols)) :
         /\ file = SubSeq(corpus_file(d, declared_cols), 1, length)
         /\ call = [name |-> "CorpusDataset", written |-> d,
                    truncated |-> length < Len(corpus_file(d, declared_cols))]
  /\ data = CorpusDataset(<<>>, 0, FALSE, <<>>)
  /\ heap_tail = <<>>
  /\ input_dim = 0
  /\ array = <<>>
  /\ FieldInit(num_cells, 1)
  /\ ArraysInit(0)
  /\ epoch = 0
  /\ gap_error = <<0, 1>>
  /\ diffusion_error = <<0, 1>>
  /\ topographic_error = <<0, 1>>
  /\ convergence_log = <<>>
  /\ ret = <<0, 1>>
  /\ omp = [region |-> "none"]
  /\ counts = null_counts
  /\ num_epochs = 0
  /\ respect_lower_bound = TRUE
  /\ train_vocab_cutoff = 0
  /\ dead_cell_update_strides = 0
  /\ update_shift = 0
  /\ pc = "init"

\* data = new CorpusDataset(training_data_filename)
LoadCorpus ==
  /\ pc = "init"
  /\ \E tail \in TailBytes :
       LET res == corpus_load(file, tail)
       IN  IF res.exception = ""
           THEN /\ data' = res
                /\ pc' = "CorpusDataset"
           ELSE /\ data' = data
                /\ pc' = "runtime_error"
  /\ UNCHANGED <<otherVars, latticeVars, heap_tail, codebookVars, fieldVars, bmuVars,
                 previous_best_matching_units, argVars, localVars, call, ret>>

SpecLoad == LoadInit /\ [][LoadCorpus]_vars

\* C23: after CorpusDataset has loaded a whole file, index_pointers[0] = 0,
\* for every row r index_pointers[r+1] - index_pointers[r] is the entry count
\* the file declares for row r (versions 2 and 3), and every loaded column
\* index is < num_cols.
C23_LoadedMatrixMatchesFile ==
  (pc = "CorpusDataset" /\ ~call.truncated) =>
    /\ data.index_pointers[0] = 0
    /\ data.num_rows = call.written.num_rows
    /\ \A r \in 0..(data.num_rows - 1) :
         data.index_pointers[r + 1] - data.index_pointers[r]
           = num_indices_in_row(call.written, r)
    /\ \A p \in DOMAIN data.indices : data.indices[p] < data.num_cols

\* the loader's rows of a whole file are the rows declared, in both versions
LoadedRowsMatchFile ==
  (pc = "CorpusDataset" /\ ~call.truncated) =>
    /\ data.index_pointers[0] = 0
    /\ data.num_rows = call.written.num_rows
    /\ data.has_weights = call.written.has_weights
    /\ \A r \in 0..(data.num_rows - 1) :
         data.index_pointers[r + 1] - data.index_pointers[r]
           = num_indices_in_row(call.written, r)
    /\ \A p \in DOMAIN data.indices : data.indices[p] = call.written.indices[p]

\* C24: loading a truncated corpus file fails with an error that aborts the
\* load, rather than producing a matrix.
C24_TruncatedFileIsRejected ==
  (pc \in {"CorpusDataset", "runtime_error"} /\ call.truncated) => pc = "runtime_error"

----------------------------------------------------------------------------
(* C25: radius_min and radius_max after Neighbourhood::update *)

\* C25: when Neighbourhood::update has returned, radius_min is the smallest
\* and radius_max the largest radius of the field over all cells, whatever
\* the interleaving of the parallel loop's workers.
C25_RadiusBoundsAreFieldExtremes ==
  pc = "update" =>
    /\ \A c \in 0..(num_cells - 1) :
         ~radius_lt(values[c], radius_min) /\ ~radius_lt(radius_max, values[c])
    /\ \E c \in 0..(num_cells - 1) : radius_min = values[c]
    /\ \E c \in 0..(num_cells - 1) : radius_max = values[c]

----------------------------------------------------------------------------
(* Specification SpecLattice: influence and diffusion_error on lattices
   whose height and width differ *)

\* the lattices of SpecLattice, tori whose height and width differ
SkewLattices ==
  {<<2, 3, "rect_torus">>, <<1, 5, "rect_torus">>, <<2, 3, "circ_torus">>}

LatticeSpecInit ==
  /\ \E lt \in SkewLattices : LatticeInit(lt[1], lt[2], lt[3])
  /\ data = CorpusDataset([r \in 1..NumRows |-> {}], Cardinality(Cols), FALSE, <<>>)
  /\ heap_tail = <<>>
  /\ input_dim = data.num_cols
  /\ array = [j \in 0..(num_cells * input_dim - 1) |-> 0]
  /\ FieldInit(num_cells, 2)
  /\ best_matching_units \in [0..(NumRows - 1) -> 0..(num_cells - 1)]
  /\ previous_best_matching_units \in [0..(NumRows - 1) -> 0..(num_cells - 1)]
  /\ distances = [row \in 0..(NumRows - 1) |-> 0]
  /\ next_best_matching_units = [row \in 0..(NumRows - 1) |-> 0]
  /\ next_distances = [row \in 0..(NumRows - 1) |-> 0]
  /\ LocalsInit
  /\ num_epochs = 0
  /\ respect_lower_bound = TRUE
  /\ train_vocab_cutoff = 0
  /\ dead_cell_update_strides = 0
  /\ update_shift = 0
  /\ pc = "init"

\* a call neighbourhood.influence(source_cell, target_cell); ret is the
\* value in millionths
Influence(source_cell, target_cell) ==
  /\ pc = "init"
  /\ ret' = <<influence(topology, height, width, values, source_cell, target_cell), 1000000>>
  /\ call' = [name |-> "influence", source_cell |-> source_cell, target_cell |-> target_cell]
  /\ pc' = "influence"
  /\ UNCHANGED <<otherVars, latticeVars, corpusVars, codebookVars, fieldVars, bmuVars,
                 previous_best_matching_units, argVars, localVars>>

LatticeSpecNext ==
  \/ \E source_cell, target_cell \in 0..(num_cells - 1) : Influence(source_cell, target_cell)
  \/ pc = "init" /\ DiffusionStep

SpecLattice == LatticeSpecInit /\ [][LatticeSpecNext]_vars

\* the sum over the rows of the lattice distance between the previous and
\* the current BMU
TotalBmuMove ==
  SumTo([row \in 0..(data.num_rows - 1) |->
           LatticeDistance(previous_best_matching_units[row], best_matching_units[row])],
        data.num_rows)

\* C26: the lattice distance influence and diffusion_error use is the
\* distance T of the map's topology taken with the map's own height and
\* width: diffusion_error returns the mean over the rows of T between the
\* previous and the current BMU, and influence is the kernel at T between the
\* source and the target cell.
C26_DistancesUseOwnHeightAndWidth ==
  /\ pc = "diffusion_error" => ret = <<TotalBmuMove, data.num_rows>>
  /\ pc = "influence" =>
       LET d == LatticeDistance(call.source_cell, call.target_cell)
           r == values[call.target_cell]
       IN  ret = <<IF int_lt_radius(d, r) THEN InfluenceTable[r.b][r.k + 1][d + 1] ELSE 0,
                   1000000>>

----------------------------------------------------------------------------
(* C27: the two searches agree on the best-matching unit (SpecSearch) *)

\* C27: on the same corpus, codebook and cutoff, find_best_matching_units
\* and find_best_and_next_best_matching_units assign the same best-matching
\* unit to every row.
C27_SearchesAgreeOnBmu ==
  /\ AfterSingle =>
       best_matching_units
         = find_best_and_next_best_matching_units(data, heap_tail, array, num_cells, input_dim,
                                                  train_vocab_cutoff).best_matching_units
  /\ AfterDual =>
       best_matching_units
         = find_best_matching_units(data, heap_tail, array, num_cells, input_dim,
                                    train_vocab_cutoff, FALSE).best_matching_units

----------------------------------------------------------------------------
(* C28: assign_dead_cells and the cells in use (SpecDead) *)

\* C28: every cell that was the BMU of at least one row when
\* assign_dead_cells was called is the BMU of at least one row when it
\* returns.
C28_UsedCellsStayUsed ==
  AfterAssign =>
    \A c \in Cells \ UnusedCells : \E row \in Rows : best_matching_units[row] = c

----------------------------------------------------------------------------
(* C29: the number of radius updates and of batch updates of train (SpecTrain) *)

\* the radius field after n applications of Neighbourhood::update in
\* SpecTrain: from the initial radius 2 with the exponent 1/2 and no
\* discontinuity on the lattice, every radius is 2^(1/2^n)
FieldAfterUpdates(n) == \A c \in Cells : values[c] = [b |-> 2, k |-> n]

\* a step of train: the batch update of epoch e is made on the field shrunk
\* e - 1 times and is the only step that writes the codebook; the radius
\* update of epoch e follows that batch update, and the one further radius
\* update is made in the final flush, after the loop
UpdateFollowsBatch ==
  /\ (pc' = "apply_batch_som_update") =>
       (pc = "copy" /\ InLoop /\ FieldAfterUpdates(epoch - 1))
  /\ (array' # array) => (pc' = "apply_batch_som_update")
  /\ (values' # values) =>
       (\/ pc = "apply_batch_som_update" /\ InLoop /\ FieldAfterUpdates(epoch)'
        \/ /\ pc = "gap_error"
           /\ epoch = num_epochs + 1
           /\ FieldAfterUpdates(num_epochs)
           /\ FieldAfterUpdates(num_epochs + 1)')

\* train has written its last log row: the radius field has been shrunk
\* E + 1 times and the log has E + 1 rows, the last under epoch E
ReturnedAfterOneMoreUpdate ==
  pc = "done" =>
    /\ epoch = num_epochs + 1
    /\ FieldAfterUpdates(num_epochs + 1)
    /\ Len(convergence_log) = num_epochs + 1
    /\ convergence_log[num_epochs + 1].Epoch = num_epochs

\* C29: train with E epochs applies Neighbourhood::update E + 1 times and
\* apply_batch_som_update E times: once per epoch 1..E the batch update
\* followed by the radius update, and one further radius update in the final
\* flush, so that the field logged under epoch E has been shrunk once more
\* than the codebook has been written.
C29_UpdateOnceMoreThanBatch ==
  []ReturnedAfterOneMoreUpdate /\ [][UpdateFollowsBatch]_vars

\* a train of MaxEpochs epochs that has returned: the field has been updated
\* MaxEpochs + 1 times
C29_TrainReturned ==
  pc = "done" /\ num_epochs = MaxEpochs /\ FieldAfterUpdates(MaxEpochs + 1)

----------------------------------------------------------------------------
(* Specification SpecShape: the constructors of Codebook and Neighbourhood *)

RECURSIVE bytes_times(_, _, _)
\* the little-endian bytes of an unsigned value times m plus carry, in as
\* many bytes as the value has: the product truncated to the value's width
bytes_times(bytes, m, carry) ==
  IF Len(bytes) = 0
  THEN <<>>
  ELSE LET t == bytes[1] * m + carry
       IN  <<t % 256>> \o bytes_times(Tail(bytes), m, t \div 256)

\* this->size = this->num_cells * input_dim, an IndexPointerType (uint32_t),
\* as its four little-endian bytes
codebook_size(cells, dim) == bytes_times(le_bytes(dim, 4), cells, 0)

\* heights and widths of SpecShape, all within 1..65535
ShapeSides == {1, 2, 3, 256, 257}

\* input dimensions of SpecShape, all within 1..2^32-1
ShapeDims == {1, 2, 65536, 2147483647}

ShapeInit ==
  /\ height \in ShapeSides
  /\ width \in ShapeSides
  /\ topology = "rect_plane"
  /\ num_cells = 0
  /\ data = CorpusDataset(<<>>, 0, FALSE, <<>>)
  /\ heap_tail = <<>>
  /\ input_dim \in ShapeDims
  /\ array = <<>>
  /\ values = <<>>
  /\ radius_min = radius_of_int(1)
  /\ radius_max = radius_of_int(1)
  /\ ArraysInit(0)
  /\ LocalsInit
  /\ num_epochs = 0
  /\ respect_lower_bound = TRUE
  /\ train_vocab_cutoff = 0
  /\ dead_cell_update_strides = 0
  /\ update_shift = 0
  /\ pc = "init"

\* codebook = new Codebook(height, width, data->num_cols, ...): num_cells,
\* size and the reserve, which leaves the vector empty
NewCodebook ==
  /\ pc = "init"
  /\ num_cells' = ToCellIndex(height * width)
  /\ call' = [name |-> "Codebook", size |-> codebook_size(num_cells', input_dim)]
  /\ array' = <<>>
  /\ pc' = "Codebook"
  /\ UNCHANGED <<otherVars, height, width, topology, corpusVars, input_dim, fieldVars, bmuVars,
                 previous_best_matching_units, argVars, localVars, ret>>

\* neighbourhood = new Neighbourhood(height, width, ..., initial_radius):
\* num_cells and the field filled with the initial radius
NewNeighbourhood ==
  /\ pc = "Codebook"
  /\ num_cells' = ToCellIndex(height * width)
  /\ values' = [c \in 0..(num_cells' - 1) |-> radius_of_int(1)]
  /\ radius_min' = radius_of_int(1)
  /\ radius_max' = radius_of_int(1)
  /\ call' = [call EXCEPT !.name = "Neighbourhood"]
  /\ pc' = "Neighbourhood"
  /\ UNCHANGED <<otherVars, height, width, topology, corpusVars, codebookVars, bmuVars,
                 previous_best_matching_units, argVars, localVars, ret>>

ShapeNext == NewCodebook \/ NewNeighbourhood

SpecShape == ShapeInit /\ [][ShapeNext]_vars

\* C30: for every height and width in 1..2^16-1 and input dimension in
\* 1..2^32-1 the constructed codebook and neighbourhood have
\* num_cells = height * width and the codebook has
\* size = height * width * input_dim, neither product wrapping around, and
\* the index of every cell of the lattice, the largest being
\* (height - 1) * width + (width - 1), is below num_cells.
C30_ShapeWithoutWraparound ==
  pc \in {"Codebook", "Neighbourhood"} =>
    /\ num_cells = height * width
    /\ call.size \o <<0, 0, 0, 0>>
         = bytes_times(bytes_times(le_bytes(input_dim, 8), height, 0), width, 0)
    /\ (height - 1) * width + (width - 1) < num_cells

====
